---- MODULE Spec2Model ----
(***************************************************************************)
(* Work-item resolution of anoblet/genaisrc: getFiles and its filters      *)
(* (packages/utility/src/utility.ts) and the style flow that calls it      *)
(* (packages/style/src/style.genai.mts).                                   *)
(* The commit-message pipeline message() (part_004 and                     *)
(* packages/message/src/message.genai.mts) and the gcm script follow, each *)
(* under a specification of its own.                                       *)
(*                                                                         *)
(* JavaScript strings are sequences of one-character strings, so that      *)
(* split, pop, toLowerCase and glob matching are computed, not assumed.    *)
(* A JavaScript value that may be an array, false, undefined, a string or  *)
(* a pending Promise is a record [tag, arr].  A file (a string, or an      *)
(* object with a filename) is its filename: the filters read nothing else. *)
(***************************************************************************)
EXTENDS Integers, Sequences, FiniteSets, TLC

\* ---------------------------------------------------------------- bounds
\* longest explicit list (env.files) drawn in Init
MaxExplicit == 2
\* most paths staged in the index in Init
MaxStaged == 2
\* most paths with pending (unstaged) changes in Init
MaxPending == 1

\* ------------------------------------------------------- JavaScript values
Arr(s) == [tag |-> "array", arr |-> s]
Str(s) == [tag |-> "string", arr |-> s]
Undefined == [tag |-> "undefined", arr |-> <<>>]
False == [tag |-> "false", arr |-> <<>>]
\* the not yet settled Promise an un-awaited async call returns
Promise == [tag |-> "promise", arr |-> <<>>]

\* JavaScript truthiness of a value: undefined, false and "" are falsy;
\* arrays (also empty ones) and Promise objects are truthy.
Truthy(v) ==
  CASE v.tag = "undefined" -> FALSE
    [] v.tag = "false" -> FALSE
    [] v.tag = "string" -> Len(v.arr) > 0
    [] OTHER -> TRUE

\* a default parameter value (include = [], exclude = []) replaces undefined
Default(v, d) == IF v.tag = "undefined" THEN d ELSE v.arr

\* ----------------------------------------------------------------- strings
UpperLetters ==
  <<"A","B","C","D","E","F","G","H","I","J","K","L","M",
    "N","O","P","Q","R","S","T","U","V","W","X","Y","Z">>
LowerLetters ==
  <<"a","b","c","d","e","f","g","h","i","j","k","l","m",
    "n","o","p","q","r","s","t","u","v","w","x","y","z">>

toLowerChar(c) ==
  IF \E i \in DOMAIN UpperLetters : UpperLetters[i] = c
    THEN LowerLetters[CHOOSE i \in DOMAIN UpperLetters : UpperLetters[i] = c]
    ELSE c

toLowerCase(s) == [i \in 1..Len(s) |-> toLowerChar(s[i])]

\* String.prototype.split with a one-character separator
RECURSIVE split(_, _)
split(s, sep) ==
  IF \A i \in DOMAIN s : s[i] # sep
    THEN <<s>>
    ELSE LET i == CHOOSE k \in DOMAIN s :
                    s[k] = sep /\ \A j \in 1..(k - 1) : s[j] # sep
         IN <<SubSeq(s, 1, i - 1)>> \o split(SubSeq(s, i + 1, Len(s)), sep)

\* Array.prototype.pop: the last element
pop(a) == a[Len(a)]

\* Array.prototype.includes
includes(a, x) == \E i \in DOMAIN a : a[i] = x

\* filename.split(".").pop()?.toLowerCase() || ""
ext(filename) ==
  LET e == toLowerCase(pop(split(filename, ".")))
  IN IF Len(e) = 0 THEN <<>> ELSE e

\* ------------------------------------------------------------- minimatch
\* minimatch(filename, pattern) for patterns made of literal characters,
\* "?", "*" (a run of characters other than "/") and a leading or inner
\* globstar directory prefix; matching is case-sensitive, as in the library.
RECURSIVE minimatch(_, _)
minimatch(s, p) ==
  IF Len(p) = 0 THEN Len(s) = 0
  ELSE IF Len(p) >= 3 /\ p[1] = "*" /\ p[2] = "*" /\ p[3] = "/"
    THEN \/ minimatch(s, SubSeq(p, 4, Len(p)))
         \/ \E i \in DOMAIN s :
              s[i] = "/" /\ minimatch(SubSeq(s, i + 1, Len(s)), p)
  ELSE IF p[1] = "*"
    THEN \E k \in 0..Len(s) :
           /\ \A j \in 1..k : s[j] # "/"
           /\ minimatch(SubSeq(s, k + 1, Len(s)), Tail(p))
  ELSE IF p[1] = "?"
    THEN Len(s) > 0 /\ s[1] # "/" /\ minimatch(Tail(s), Tail(p))
  ELSE Len(s) > 0 /\ s[1] = p[1] /\ minimatch(Tail(s), Tail(p))

\* ------------------------------------------------------------ the filters
\* the outcome of a call: a returned value, or a thrown TypeError
Ret(v) == [threw |-> FALSE, val |-> v]
Throw == [threw |-> TRUE, val |-> Undefined]

\* the callback of files.filter in filterFiles
extKeeps(file, include, exclude) ==
  LET isIncluded == Len(include) = 0 \/ includes(include, ext(file))
      isExcluded == Len(exclude) > 0 /\ includes(exclude, ext(file))
  IN isIncluded /\ ~isExcluded

\* filterFiles without the early return of line 15 and with an empty allow
\* list read as "nothing is allowed"
filterFiles_strictAllow(files, include, exclude) ==
  LET inc == Default(include, <<>>)
      exc == Default(exclude, <<>>)
      keep(file) == includes(inc, ext(file)) /\ ~includes(exc, ext(file))
  IN IF ~Truthy(files) \/ (files.tag = "array" /\ Len(files.arr) = 0)
       THEN Ret(Arr(<<>>))
     ELSE IF files.tag # "array" THEN Throw
     ELSE Ret(Arr(SelectSeq(files.arr, keep)))

\* filterFiles without the guard of line 14
filterFiles_noGuard(files, include, exclude) ==
  LET inc == Default(include, <<>>)
      exc == Default(exclude, <<>>)
      keep(file) == extKeeps(file, inc, exc)
  IN IF Len(inc) = 0 /\ Len(exc) = 0 THEN Ret(files)
     ELSE IF files.tag # "array" THEN Throw
     ELSE Ret(Arr(SelectSeq(files.arr, keep)))

\* filterFiles({ files, include = [], exclude = [] }); files may be an array,
\* false, or the Promise of an un-awaited stageFiles() call, which has no
\* length and no filter method.
filterFiles(files, include, exclude) ==
  LET inc == Default(include, <<>>)
      exc == Default(exclude, <<>>)
      keep(file) == extKeeps(file, inc, exc)
  IN IF ~Truthy(files) \/ (files.tag = "array" /\ Len(files.arr) = 0)
       THEN Ret(Arr(<<>>))
     ELSE IF Len(inc) = 0 /\ Len(exc) = 0 THEN Ret(files)
     ELSE IF files.tag # "array" THEN Throw
     ELSE Ret(Arr(SelectSeq(files.arr, keep)))

\* the glob callback with the include pattern overriding the exclude pattern
globKeeps_includeWins(file, includePattern, excludePattern) ==
  IF Truthy(includePattern) THEN minimatch(file, includePattern.arr)
  ELSE IF Truthy(excludePattern) /\ minimatch(file, excludePattern.arr) THEN FALSE
  ELSE TRUE

\* the callback of files.filter in filterFilesByGlob
globKeeps(file, includePattern, excludePattern) ==
  IF Truthy(includePattern) /\ ~minimatch(file, includePattern.arr) THEN FALSE
  ELSE IF Truthy(excludePattern) /\ minimatch(file, excludePattern.arr) THEN FALSE
  ELSE TRUE

\* filterFilesByGlob({ files, includePattern, excludePattern })
filterFilesByGlob(files, includePattern, excludePattern) ==
  LET keep(file) == globKeeps(file, includePattern, excludePattern)
  IN IF ~Truthy(files) \/ (files.tag = "array" /\ Len(files.arr) = 0)
       THEN Ret(Arr(<<>>))
     ELSE IF files.tag # "array" THEN Throw
     ELSE Ret(Arr(SelectSeq(files.arr, keep)))

\* getArray with the emptiness test off by one (length <= 1)
getArray_offByOne(array) ==
  IF array.tag = "undefined" \/ Len(array.arr) <= 1 THEN Undefined ELSE array

\* getArray: the array itself, or undefined when it is undefined or empty
getArray(array) ==
  IF array.tag = "undefined" \/ Len(array.arr) = 0 THEN Undefined ELSE array


\* envBoolean(key): true only for a value that equals "true" ignoring case
\* (environment is the process environment, a function from names to values)
envGet(environment, key) ==
  IF key.tag = "string" /\ key.arr \in DOMAIN environment
    THEN environment[key.arr]
    ELSE Undefined

envBoolean(environment, key) ==
  LET value == envGet(environment, key)
  IN IF value.tag = "undefined" \/ Len(value.arr) = 0 THEN FALSE
     ELSE IF toLowerCase(value.arr) = <<"t","r","u","e">> THEN TRUE
     ELSE FALSE

\* the fallback chain with the auto-stage flag tried before the staged listing
afterStaged_stageFirst(staged, stageAll) ==
  IF stageAll THEN "autostage"
  ELSE IF getArray(staged) # Undefined THEN "staged"
  ELSE "none"

\* `getArray(await git.listFiles("staged")) || (stageAll ? stageFiles() : false)`:
\* which source is taken once the staged listing is known
afterStaged(staged, stageAll) ==
  IF getArray(staged) # Undefined THEN "staged"
  ELSE IF stageAll THEN "autostage"
  ELSE "none"

\* getFiles applying the extension filter to what the glob filter kept
applyFilter_both(files, a) ==
  LET byGlob ==
        IF Truthy(a.includePattern) \/ Truthy(a.excludePattern)
          THEN filterFilesByGlob(files, a.includePattern, a.excludePattern)
          ELSE Ret(files)
  IN IF byGlob.threw THEN byGlob
     ELSE filterFiles(byGlob.val, a.include, a.exclude)

\* the filtering of getFiles: glob mode when either pattern is truthy,
\* extension mode otherwise
applyFilter(files, a) ==
  IF Truthy(a.includePattern) \/ Truthy(a.excludePattern)
    THEN filterFilesByGlob(files, a.includePattern, a.excludePattern)
    ELSE filterFiles(files, a.include, a.exclude)

\* ------------------------------------------------------ the input universe
K_STAGE_ALL ==
  <<"G","E","N","A","I","S","C","R","I","P","T","_","S","T","A","G","E","_","A","L","L">>
K_STYLE_ENABLED ==
  <<"G","E","N","A","I","S","C","R","I","P","T","_","S","T","Y","L","E","_","E","N","A","B","L","E","D">>
S_true == <<"t","r","u","e">>
S_TRUE == <<"T","R","U","E">>
S_false == <<"f","a","l","s","e">>

P_a_ts == <<"a",".","t","s">>
P_b_md == <<"b",".","m","d">>
P_src_x_ts == <<"s","r","c","/","x",".","t","s">>
P_Makefile == <<"M","a","k","e","f","i","l","e">>
P_R_TS == <<"R",".","T","S">>
P_v2_README == <<"l","i","b",".","v","2","/","R","E","A","D","M","E">>
\* stylePath: the style prompt file the style flow rewrites and stages
StylePath ==
  <<".",".","/",".",".","/",".",".","/",".","g","i","t","h","u","b","/","p","r","o","m","p","t","s","/",
    "s","t","y","l","e",".","p","r","o","m","p","t",".","m","d">>

T_ts == <<"t","s">>
T_md == <<"m","d">>
T_makefile == <<"m","a","k","e","f","i","l","e">>
T_empty == <<>>

G_ts == <<"*",".","t","s">>
G_src == <<"s","r","c","/","*">>
G_deep_ts == <<"*","*","/","*",".","t","s">>
G_any_x == <<"*","*","/","x",".","*">>

\* the paths of the working tree, in the order git lists them
GitOrder == <<P_a_ts, P_b_md, P_src_x_ts, StylePath>>
TreePaths == {P_a_ts, P_b_md, P_src_x_ts}

\* git.listFiles("staged"): the staged paths in git's order
listFiles(staged) ==
  LET isStaged(p) == p \in staged
  IN SelectSeq(GitOrder, isStaged)

\* all sequences over S of length at most n
SeqsUpTo(S, n) == UNION {[1..k -> S] : k \in 0..n}


\* --------------------------------------------------------------- the state
VARIABLES
  caller,      \* "getFiles": getFiles is called with args; "style": style() runs
  envFiles,    \* env.files, the explicit list
  procEnv,     \* process.env
  args,        \* the argument object of getFiles
  index0,      \* the staged paths when the run started
  pending0,    \* the unstaged changed paths when the run started
  index,       \* the version-control index: the staged paths
  pending,     \* the paths with changes that are not staged
  pc,          \* position of getFiles
  source,      \* the source getFiles took its candidates from
  result,      \* what getFiles returned or threw
  stagePc,     \* position of the stageFiles() call getFiles starts
  listCalls,   \* number of git.listFiles("staged") calls made
  execLog,     \* the git.exec commands issued, in order
  stylePc,     \* position of style()
  styleIdx,    \* index of the file style() is processing
  modelCalls,  \* number of runPrompt calls
  writes,      \* number of workspace.writeText calls
  styleResult, \* what runPrompt resolved to in processFile
  styleGuide,  \* content of the file at stylePath
  fIn,         \* the arguments of a direct filter call
  fOut,        \* what the direct filter call returned or threw
  fPc,         \* position of the direct filter call
  callNo,      \* which call of getFiles is running (1 or 2)
  first,       \* how the first call of getFiles settled
  mIn,           \* message(): which revision runs, the diff and the settings
  mPc,           \* position of message()
  chunks,        \* chunks.length
  chunkIdx,      \* index of the chunk whose runPrompt call is awaited
  message,       \* the chunk messages collected so far
  commitMessage, \* the text message() will commit
  runLog,        \* the runPrompt calls issued, in order
  outputs,       \* what the per-chunk runPrompt calls returned, in order
  summaryResult, \* what the summarize runPrompt call returned
  commits,       \* the messages git commit was called with
  outcome,       \* how message() ended
  mResult,       \* what the promise of message() settled to
  diffOptions,   \* the paths and excludedPaths git.diff is called with
  gIn,         \* gcm: auto mode, the staged state, the diff and the settings
  gPc,         \* position of the gcm script
  gChunks,     \* chunks.length in gcm
  gIdx,        \* index of the chunk whose runPrompt call gcm awaits
  gMessage,    \* message in gcm
  gLog,        \* the calls gcm issued, in order
  gConfirm,    \* the big-diff confirmation: notAsked, asked, yes or no
  gRound,      \* number of generation rounds started
  gOutcome,    \* how gcm ended
  eIn,         \* a setting: the variable read and its value in process.env
  eOut,        \* what the setting resolved to
  ePc,         \* position of the read of the setting
  cIn,                 \* comment(): GENAISCRIPT_COMMENT_EXTENSIONS
  cPc,                 \* position of comment()
  filesToComment,      \* the work list of comment()
  filesThatWereStaged, \* the files comment() found staged
  filesWeStaged,       \* the files comment() staged itself
  cIdx,                \* index of the file comment() is processing
  rewritten,           \* the files comment() wrote back
  cOutcome,            \* how comment() ended
  cPrompt,             \* how runPrompt settled in addCommentsToFile
  cResult,             \* what addCommentsToFile returned
  wIn,                 \* commit(): the values of its three flags
  wPc,                 \* position of commit()
  vIn,                 \* version(): the commit subjects and GENAISCRIPT_VERSION_PUSH
  vPc,                 \* position of version()
  bumpType,            \* what analyzeVersionBump returned
  vStep,               \* index of the step applyVersionBump is waiting for
  vLog,                \* the npm and git operations applyVersionBump started
  vResult              \* what the promise of version() settled to

vars ==
  <<caller, envFiles, procEnv, args, index0, pending0, index, pending, pc,
    source, result,
    stagePc, listCalls, execLog, stylePc, styleIdx, modelCalls, writes,
    styleResult, styleGuide,
    fIn, fOut, fPc, callNo, first,
    mIn, mPc, chunks, chunkIdx, message, commitMessage, runLog, outputs,
    summaryResult, commits, outcome, mResult, diffOptions,
    gIn, gPc, gChunks, gIdx, gMessage, gLog, gConfirm, gRound, gOutcome,
    eIn, eOut, ePc,
    cIn, cPc, filesToComment, filesThatWereStaged, filesWeStaged, cIdx,
    rewritten, cOutcome, cPrompt, cResult, wIn, wPc,
    vIn, vPc, bumpType, vStep, vLog, vResult>>

gitVars == <<index, pending>>
inputVars == <<caller, envFiles, procEnv, args, index0, pending0>>
styleVars == <<stylePc, styleIdx, modelCalls, writes, styleResult, styleGuide>>
filterVars == <<fIn, fOut, fPc>>
againVars == <<callNo, first>>
\* the variables of the other flows, which getFiles, style and the direct
\* filter calls leave alone
msgVars ==
  <<mIn, mPc, chunks, chunkIdx, message, commitMessage, runLog, outputs,
    summaryResult, commits, outcome, mResult, diffOptions>>
gcmVars ==
  <<gIn, gPc, gChunks, gIdx, gMessage, gLog, gConfirm, gRound, gOutcome>>
envVars == <<eIn, eOut, ePc>>
\* the variables of the flows added after the two commit-message flows
callVars == <<cPrompt, cResult>>
commentVars ==
  <<cIn, cPc, filesToComment, filesThatWereStaged, filesWeStaged, cIdx,
    rewritten, cOutcome, callVars>>
workflowVars == <<wIn, wPc>>
versionVars == <<vIn, vPc, bumpType, vStep, vLog, vResult>>
extraVars == <<envVars, commentVars, workflowVars, versionVars>>
flowVars == <<againVars, msgVars, gcmVars, extraVars>>

NoSetting == [tag |-> "none", nan |-> FALSE, n |-> 0, b |-> FALSE]

\* no setting is being read
EnvIdle ==
  /\ eIn = [key |-> "none", value |-> Undefined]
  /\ eOut = NoSetting
  /\ ePc = "idle"

\* what runPrompt resolves to: error, the contents of the code fences and text
Result(error, fences, text) ==
  [error |-> error, fences |-> fences, text |-> text]

NoResult == Result(FALSE, <<>>, <<>>)

\* runPrompt resolved with a result, or rejected with an error message
Resolved(r) == [rejected |-> FALSE, result |-> r, message |-> <<>>]
Rejected(m) == [rejected |-> TRUE, result |-> NoResult, message |-> m]

\* no model call and no result of addCommentsToFile at hand
NoPrompt == Resolved(NoResult)
NoCommentResult == [content |-> <<>>, error |-> Undefined]

\* comment() is not running
CommentIdle ==
  /\ cIn = [extensions |-> Undefined]
  /\ cPc = "idle"
  /\ filesToComment = <<>>
  /\ filesThatWereStaged = <<>>
  /\ filesWeStaged = <<>>
  /\ cIdx = 0
  /\ rewritten = {}
  /\ cOutcome = "none"
  /\ cPrompt = NoPrompt
  /\ cResult = NoCommentResult

\* commit() is not running
WorkflowIdle ==
  /\ wIn = [stage |-> Undefined, push |-> Undefined, deploy |-> Undefined]
  /\ wPc = "idle"

\* version() is not running
VersionIdle ==
  /\ vIn = [commits |-> <<>>, push |-> Undefined]
  /\ vPc = "idle"
  /\ bumpType = "unset"
  /\ vStep = 0
  /\ vLog = <<>>
  /\ vResult = [threw |-> FALSE, val |-> Undefined]

ExtraIdle == EnvIdle /\ CommentIdle /\ WorkflowIdle /\ VersionIdle

\* the style guide before style() runs
OriginalGuide == <<"g">>

\* what runPrompt resolves to in processFile: a new guide, an error with the
\* text produced so far, no text
StyleResponses ==
  {Result(FALSE, <<>>, <<"s">>),
   Result(TRUE, <<>>, <<"e">>),
   Result(FALSE, <<>>, <<>>)}

\* diffOptions before anything is added to { staged, askStageOnEmpty }
NoDiffOptions == [paths |-> Undefined, excludedPaths |-> Undefined]

\* message() is not running
MsgIdle ==
  /\ mIn = [variant |-> "none", diff |-> 0, chunkSizeEnv |-> 0,
            chunkMaxEnv |-> 0, includeEnv |-> Undefined,
            excludedEnv |-> Undefined, staged |-> <<>>]
  /\ mPc = "idle"
  /\ chunks = 0
  /\ chunkIdx = 0
  /\ message = <<>>
  /\ commitMessage = <<>>
  /\ runLog = <<>>
  /\ outputs = <<>>
  /\ summaryResult = NoResult
  /\ commits = <<>>
  /\ outcome = "none"
  /\ mResult = Ret(Undefined)
  /\ diffOptions = NoDiffOptions

\* the gcm script is not running
GcmIdle ==
  /\ gIn = [auto |-> FALSE, hasStaged |-> FALSE, diff |-> 0,
            chunkSize |-> [set |-> FALSE, n |-> 0],
            maxChunks |-> [set |-> FALSE, n |-> 0]]
  /\ gPc = "idle"
  /\ gChunks = 0
  /\ gIdx = 0
  /\ gMessage = <<>>
  /\ gLog = <<>>
  /\ gConfirm = "notAsked"
  /\ gRound = 0
  /\ gOutcome = "none"

NoArgs ==
  [include |-> Undefined, exclude |-> Undefined,
   includePattern |-> Undefined, excludePattern |-> Undefined]

\* the argument objects getFiles is called with
ArgSpace ==
  [include : {Undefined, Arr(<<>>), Arr(<<T_ts>>)},
   exclude : {Undefined, Arr(<<T_md>>)},
   includePattern : {Undefined, Str(<<>>), Str(G_ts)},
   excludePattern : {Undefined, Str(G_src)}]

NoFilterCall ==
  [kind |-> "none", files |-> Arr(<<>>), include |-> Undefined,
   exclude |-> Undefined, includePattern |-> Undefined,
   excludePattern |-> Undefined]

MkEnv(stageAll, styleEnabled) ==
  [k \in {K_STAGE_ALL, K_STYLE_ENABLED} |->
     IF k = K_STAGE_ALL THEN stageAll ELSE styleEnabled]

Init ==
  /\ caller \in {"getFiles", "style"}
  /\ envFiles \in {Arr(s) : s \in SeqsUpTo(TreePaths, MaxExplicit)}
  /\ index \in {S \in SUBSET TreePaths : Cardinality(S) <= MaxStaged}
  /\ pending \in {S \in SUBSET (TreePaths \ index) : Cardinality(S) <= MaxPending}
  /\ index0 = index
  /\ pending0 = pending
  /\ \E sa \in {Undefined, Str(S_true), Str(S_TRUE), Str(S_false)} :
       \E se \in IF caller = "style"
                   THEN {Undefined, Str(S_true), Str(K_STAGE_ALL)}
                   ELSE {Undefined} :
         procEnv = MkEnv(sa, se)
  /\ args \in IF caller = "style" THEN {NoArgs} ELSE ArgSpace
  /\ pc = "idle"
  /\ source = "unset"
  /\ result = Ret(Undefined)
  /\ stagePc = "idle"
  /\ listCalls = 0
  /\ execLog = <<>>
  /\ stylePc = IF caller = "style" THEN "start" ELSE "idle"
  /\ styleIdx = 0
  /\ modelCalls = 0
  /\ writes = 0
  /\ styleResult = NoResult
  /\ styleGuide = OriginalGuide
  /\ fIn = NoFilterCall
  /\ fOut = Ret(Undefined)
  /\ fPc = "idle"
  /\ callNo = 1
  /\ first = [pc |-> "idle", result |-> Ret(Undefined)]
  /\ MsgIdle
  /\ GcmIdle
  /\ ExtraIdle

\* ----------------------------------------------------------------- getFiles
\* the rest of getFiles once `files` is known: filter and return. An async
\* function that returns a Promise settles only when that Promise does.
Finish(files) ==
  LET out == applyFilter(files, args)
  IN IF out.threw THEN pc' = "threw" /\ result' = out
     ELSE IF out.val.tag = "promise"
       THEN pc' = "awaitStage" /\ result' = result
     ELSE pc' = "returned" /\ result' = out

\* getFiles up to its first await: env.files wins when it is not empty,
\* otherwise git.listFiles("staged") is called
GetFilesBody ==
  /\ pc = "idle"
  /\ IF getArray(envFiles) # Undefined
       THEN /\ source' = "explicit"
            /\ Finish(envFiles)
            /\ UNCHANGED listCalls
       ELSE /\ pc' = "listing"
            /\ listCalls' = listCalls + 1
            /\ UNCHANGED <<source, result>>
  /\ UNCHANGED <<stagePc, execLog, gitVars, inputVars, filterVars, flowVars>>

GetFilesCall ==
  /\ caller = "getFiles"
  /\ GetFilesBody
  /\ UNCHANGED styleVars

\* the staged listing arrives: use it, or start stageFiles() without awaiting
\* it, or fall back to false
GetFilesListed ==
  /\ pc = "listing"
  /\ LET staged == Arr(listFiles(index))
         stageAll == envBoolean(procEnv, Str(K_STAGE_ALL))
         next == afterStaged(staged, stageAll)
     IN /\ source' = next
        /\ CASE next = "staged" ->
                  /\ Finish(staged)
                  /\ UNCHANGED <<stagePc, execLog>>
             [] next = "autostage" ->
                  /\ stagePc' = "adding"
                  /\ execLog' = Append(execLog, [cmd |-> "add -A", path |-> <<>>])
                  /\ Finish(Promise)
             [] OTHER ->
                  /\ Finish(False)
                  /\ UNCHANGED <<stagePc, execLog>>
  /\ UNCHANGED <<listCalls, gitVars, inputVars, styleVars, filterVars, flowVars>>

\* stageFiles(): `git add -A` completes, then the staged files are listed
StageAddDone ==
  /\ stagePc = "adding"
  /\ index' = index \cup pending
  /\ pending' = {}
  /\ stagePc' = "listing"
  /\ listCalls' = listCalls + 1
  /\ UNCHANGED <<pc, source, result, execLog, inputVars, styleVars, filterVars, flowVars>>

\* stageFiles() returns the staged list; a getFiles that returned its Promise
\* settles with it
StageListDone ==
  /\ stagePc = "listing"
  /\ stagePc' = "done"
  /\ IF pc = "awaitStage"
       THEN pc' = "returned" /\ result' = Ret(Arr(listFiles(index)))
       ELSE UNCHANGED <<pc, result>>
  /\ UNCHANGED <<source, listCalls, execLog, gitVars, inputVars, styleVars,
                 filterVars, flowVars>>


\* getFiles is called a second time with the same env.files and arguments,
\* once the first call has settled and no stageFiles() call is running
GetFilesAgain ==
  /\ caller = "getFiles"
  /\ callNo = 1
  /\ pc \in {"returned", "threw"}
  /\ stagePc \in {"idle", "done"}
  /\ callNo' = 2
  /\ first' = [pc |-> pc, result |-> result]
  /\ pc' = "idle"
  /\ UNCHANGED <<source, result, stagePc, listCalls, execLog, gitVars,
                 inputVars, styleVars, filterVars, msgVars, gcmVars,
                 extraVars>>

\* -------------------------------------------------------------------- style
\* style(): leave when the enable flag is not true, otherwise call getFiles({}).
\* The flag is read as envBoolean(process.env.GENAISCRIPT_STYLE_ENABLED): the
\* VALUE of the variable is handed to envBoolean as the name to look up.
StyleEnter ==
  /\ stylePc = "start"
  /\ IF ~envBoolean(procEnv, envGet(procEnv, Str(K_STYLE_ENABLED)))
       THEN /\ stylePc' = "disabled"
            /\ UNCHANGED <<pc, source, result, stagePc, listCalls, execLog,
                           gitVars, inputVars, filterVars, flowVars>>
       ELSE /\ stylePc' = "awaitGetFiles"
            /\ GetFilesBody
  /\ UNCHANGED <<styleIdx, modelCalls, writes, styleResult, styleGuide>>

\* getFiles settled: rethrow, or leave on an empty list, or enter the loop
\* (processFile starts with workspace.readText)
StyleResume ==
  /\ stylePc = "awaitGetFiles"
  /\ pc \in {"returned", "threw"}
  /\ IF pc = "threw" THEN stylePc' = "rejected" /\ UNCHANGED styleIdx
     ELSE IF Len(result.val.arr) = 0
       THEN stylePc' = "nothing" /\ UNCHANGED styleIdx
     ELSE stylePc' = "readText" /\ styleIdx' = 1
  /\ UNCHANGED <<pc, source, result, stagePc, listCalls, execLog, gitVars,
                 inputVars, modelCalls, writes, styleResult, styleGuide,
                 filterVars, flowVars>>

\* processFile: the style guide is read, runPrompt is called
StyleReadDone ==
  /\ stylePc = "readText"
  /\ stylePc' = "runPrompt"
  /\ modelCalls' = modelCalls + 1
  /\ UNCHANGED <<pc, source, result, stagePc, listCalls, execLog, gitVars,
                 inputVars, styleIdx, writes, styleResult, styleGuide,
                 filterVars, flowVars>>

\* processFile: the model answered, workspace.writeText is called
StylePromptDone ==
  /\ stylePc = "runPrompt"
  /\ stylePc' = "writeText"
  /\ writes' = writes + 1
  /\ styleResult' \in StyleResponses
  /\ UNCHANGED <<pc, source, result, stagePc, listCalls, execLog, gitVars,
                 inputVars, styleIdx, modelCalls, styleGuide, filterVars,
                 flowVars>>

\* the write is done: next file, or stageFiles({ files: [stylePath] })
StyleWriteDone ==
  /\ stylePc = "writeText"
  /\ IF styleIdx < Len(result.val.arr)
       THEN /\ styleIdx' = styleIdx + 1
            /\ stylePc' = "readText"
            /\ UNCHANGED execLog
       ELSE /\ stylePc' = "adding"
            /\ execLog' = Append(execLog, [cmd |-> "add", path |-> StylePath])
            /\ UNCHANGED styleIdx
  /\ styleGuide' = styleResult.text
  /\ styleResult' = NoResult
  /\ UNCHANGED <<pc, source, result, stagePc, listCalls, gitVars, inputVars,
                 modelCalls, writes, filterVars, flowVars>>

\* `git add stylePath` completes (it stages the file when its content changed),
\* then the staged files are listed
StyleAddDone ==
  /\ stylePc = "adding"
  /\ index' \in {index, index \cup {StylePath}}
  /\ stylePc' = "listing"
  /\ listCalls' = listCalls + 1
  /\ UNCHANGED <<pc, source, result, stagePc, execLog, pending, inputVars,
                 styleIdx, modelCalls, writes, styleResult, styleGuide,
                 filterVars, flowVars>>

StyleListDone ==
  /\ stylePc = "listing"
  /\ stylePc' = "done"
  /\ UNCHANGED <<pc, source, result, stagePc, listCalls, execLog, gitVars,
                 inputVars, styleIdx, modelCalls, writes, styleResult,
                 styleGuide, filterVars, flowVars>>

Next ==
  \/ GetFilesCall
  \/ GetFilesListed
  \/ GetFilesAgain
  \/ StageAddDone
  \/ StageListDone
  \/ StyleEnter
  \/ StyleResume
  \/ StyleReadDone
  \/ StylePromptDone
  \/ StyleWriteDone
  \/ StyleAddDone
  \/ StyleListDone

Spec == Init /\ [][Next]_vars

\* --------------------------------------------- the filters, called directly
\* longest file list handed to a filter
MaxFilterFiles == 2
\* longest extension allow or deny list
MaxTokens == 1

FilterPaths == {P_a_ts, P_b_md, P_Makefile, P_R_TS, P_v2_README, P_src_x_ts}
Tokens == {T_ts, T_md, T_makefile, T_empty}
Patterns == {Undefined, Str(<<>>), Str(G_ts), Str(G_src), Str(G_deep_ts), Str(G_any_x)}
TokenLists == {Undefined} \cup {Arr(s) : s \in SeqsUpTo(Tokens, MaxTokens)}

InitFilter ==
  /\ \E files \in {False, Undefined}
                    \cup {Arr(s) : s \in SeqsUpTo(FilterPaths, MaxFilterFiles)} :
       \/ \E inc \in TokenLists, exc \in TokenLists :
            fIn = [kind |-> "ext", files |-> files, include |-> inc,
                   exclude |-> exc, includePattern |-> Undefined,
                   excludePattern |-> Undefined]
       \/ \E ip \in Patterns, ep \in Patterns :
            fIn = [kind |-> "glob", files |-> files, include |-> Undefined,
                   exclude |-> Undefined, includePattern |-> ip,
                   excludePattern |-> ep]
  /\ fOut = Ret(Undefined)
  /\ fPc = "ready"
  /\ callNo = 1
  /\ first = [pc |-> "idle", result |-> Ret(Undefined)]
  /\ MsgIdle
  /\ GcmIdle
  /\ ExtraIdle
  /\ caller = "filter"
  /\ envFiles = Arr(<<>>)
  /\ procEnv = MkEnv(Undefined, Undefined)
  /\ args = NoArgs
  /\ index = {}
  /\ pending = {}
  /\ index0 = {}
  /\ pending0 = {}
  /\ pc = "idle"
  /\ source = "unset"
  /\ result = Ret(Undefined)
  /\ stagePc = "idle"
  /\ listCalls = 0
  /\ execLog = <<>>
  /\ stylePc = "idle"
  /\ styleIdx = 0
  /\ modelCalls = 0
  /\ writes = 0
  /\ styleResult = NoResult
  /\ styleGuide = OriginalGuide

FilterFilesCall ==
  /\ fPc = "ready"
  /\ fIn.kind = "ext"
  /\ fOut' = filterFiles(fIn.files, fIn.include, fIn.exclude)
  /\ fPc' = "done"
  /\ UNCHANGED <<fIn, pc, source, result, stagePc, listCalls, execLog, gitVars,
                 inputVars, styleVars, flowVars>>

FilterFilesByGlobCall ==
  /\ fPc = "ready"
  /\ fIn.kind = "glob"
  /\ fOut' = filterFilesByGlob(fIn.files, fIn.includePattern, fIn.excludePattern)
  /\ fPc' = "done"
  /\ UNCHANGED <<fIn, pc, source, result, stagePc, listCalls, execLog, gitVars,
                 inputVars, styleVars, flowVars>>

NextFilter == FilterFilesCall \/ FilterFilesByGlobCall

SpecFilter == InitFilter /\ [][NextFilter]_vars


\* ------------------------------------------------------ the message pipeline
\* Two revisions of message() are in the sources: the one of part_004, with
\* configurable chunk size and ceiling, and the one packaged in
\* packages/message, with both fixed.  The diff is its length in tokens; the
\* chunks tokenizers.chunk cuts are consecutive runs of at most chunkSize
\* tokens.

\* largest small diff, in tokens
MaxDiffTokens == 3
\* largest configured chunk size
MaxChunkSizeEnv == 2
\* largest configured chunk ceiling
MaxChunkMaxEnv == 2

DefaultChunkSize == 1000
DefaultChunkMax == 10
PackagedChunkSize == 10000
PackagedMaxChunks == 4

WhiteSpace == {" ", "\n", "\t"}

trim_keepAll(s) == s

\* String.prototype.trim
trim(s) ==
  IF \A i \in DOMAIN s : s[i] \in WhiteSpace
    THEN <<>>
    ELSE LET lo == CHOOSE i \in DOMAIN s :
                     s[i] \notin WhiteSpace
                       /\ \A j \in 1..(i - 1) : s[j] \in WhiteSpace
             hi == CHOOSE i \in DOMAIN s :
                     s[i] \notin WhiteSpace
                       /\ \A j \in (i + 1)..Len(s) : s[j] \in WhiteSpace
         IN SubSeq(s, lo, hi)

\* v || d, for the numbers envNumber returns
orDefault(v, d) == IF v = 0 THEN d ELSE v

chunkSizeOf(in) ==
  IF in.variant = "packaged"
    THEN PackagedChunkSize
    ELSE orDefault(in.chunkSizeEnv, DefaultChunkSize)

chunkMaxOf(in) ==
  IF in.variant = "packaged"
    THEN PackagedMaxChunks
    ELSE orDefault(in.chunkMaxEnv, DefaultChunkMax)

diffIsEmpty_never(d) == FALSE

\* !diff
diffIsEmpty(d) == d = 0

\* (await tokenizers.chunk(diff, { chunkSize })).length
numChunks(d, size) == (d + size - 1) \div size

\* the k-th chunk: the tokens it holds
chunkAt(d, size, k) ==
  [lo |-> (k - 1) * size + 1, hi |-> IF k * size < d THEN k * size ELSE d]

\* chunks.length > chunkMax; the packaged revision declares maxChunks and
\* never reads it
exceedsCeiling(in, n) == in.variant = "part_004" /\ n > chunkMaxOf(in)

\* result.fences?.[0]?.content || result.text
extract(r) ==
  IF Len(r.fences) > 0 /\ Len(r.fences[1]) > 0 THEN r.fences[1] ELSE r.text

appendOutput_onError(m, r) == m \o trim(extract(r)) \o <<"\n">>

appendOutput_prepend(m, r) ==
  IF r.error THEN m ELSE trim(extract(r)) \o <<"\n">> \o m

\* the loop body after the call: skip the chunk on an error, else
\* message += (...).trim() + "\n"
appendOutput(m, r) ==
  IF r.error THEN m ELSE m \o trim(extract(r)) \o <<"\n">>

needsSummary_always(n) == n >= 1

needsSummary_never(n) == FALSE

\* chunks.length > 1
needsSummary(n) == n > 1

afterSummary_ignoreError(cm, r) == trim(extract(r))

\* if (!summaryResult.error) commitMessage = (...).trim()
afterSummary(cm, r) == IF r.error THEN cm ELSE trim(extract(r))

ChunkCall_next(in, k) ==
  [kind |-> "chunk", idx |-> k + 1,
   lo |-> chunkAt(in.diff, chunkSizeOf(in), k + 1).lo,
   hi |-> chunkAt(in.diff, chunkSizeOf(in), k + 1).hi, text |-> <<>>]

\* the runPrompt call for the k-th chunk
ChunkCall(in, k) ==
  [kind |-> "chunk", idx |-> k,
   lo |-> chunkAt(in.diff, chunkSizeOf(in), k).lo,
   hi |-> chunkAt(in.diff, chunkSizeOf(in), k).hi, text |-> <<>>]

SummaryCall(m) ==
  [kind |-> "summarize", idx |-> 0, lo |-> 0, hi |-> 0, text |-> m]

\* what runPrompt can resolve to
Responses ==
  {Result(TRUE, <<>>, <<"e">>),
   Result(FALSE, <<>>, <<"x">>),
   Result(FALSE, <<>>, <<"y">>),
   Result(FALSE, <<>>, <<" ">>),
   Result(FALSE, <<<<" ", "f", "\n">>>>, <<"t">>)}

DiffSizes ==
  (0..MaxDiffTokens)
    \cup {DefaultChunkSize + 1, PackagedChunkSize + 1,
          PackagedChunkSize * PackagedMaxChunks + 1}

P_b_MD == <<"b", ".", "M", "D">>
G_all == <<"*", "*", "/", "*">>
E_R_TS == <<"R", ".", "T", "S">>
E_list == <<" ", "b", ".", "M", "D", ",", "s", "r", "c", "/", "*">>
S_blank == <<" ">>

\* the paths git.listFiles("staged") can list, in git's order
MsgPaths == <<P_R_TS, P_a_ts, P_b_MD, P_src_x_ts>>

StagedListings ==
  {SelectSeq(MsgPaths, LAMBDA f : f \in S) : S \in SUBSET {MsgPaths[i] : i \in DOMAIN MsgPaths}}

IncludeValues == {Undefined, Str(S_blank), Str(G_deep_ts), Str(G_all)}
ExcludedValues == {Undefined, Str(G_src), Str(E_R_TS), Str(E_list)}

\* the runs that vary the diff and the chunk settings, and the runs that vary
\* the include and exclude settings and the staged files
MsgInputs ==
  [variant : {"part_004"}, diff : DiffSizes,
   chunkSizeEnv : 0..MaxChunkSizeEnv, chunkMaxEnv : 0..MaxChunkMaxEnv,
   includeEnv : {Undefined}, excludedEnv : {Undefined}, staged : {<<>>}]
    \cup [variant : {"packaged"}, diff : DiffSizes,
          chunkSizeEnv : {0}, chunkMaxEnv : {0},
          includeEnv : {Undefined}, excludedEnv : {Undefined},
          staged : {<<>>}]
    \cup [variant : {"packaged"}, diff : {1},
          chunkSizeEnv : {0}, chunkMaxEnv : {0},
          includeEnv : {Undefined}, excludedEnv : ExcludedValues,
          staged : {<<>>}]
    \cup [variant : {"part_004"}, diff : {1},
          chunkSizeEnv : {0}, chunkMaxEnv : {0},
          includeEnv : IncludeValues, excludedEnv : ExcludedValues,
          staged : StagedListings]

\* envArray, given process.env[key]
envArray(value) ==
  IF value.tag = "undefined" \/ Len(value.arr) = 0
    THEN <<>>
    ELSE LET items == split(value.arr, ",")
         IN [i \in DOMAIN items |-> toLowerCase(trim(items[i]))]

\* envString, given process.env[key]
envString(value) ==
  IF value.tag = "undefined" \/ Len(trim(value.arr)) = 0
    THEN Undefined
    ELSE Str(trim(value.arr))

\* const excludedPaths = envArray("GENAISCRIPT_MESSAGE_EXCLUDED_PATHS")
excludedPaths(in) == envArray(in.excludedEnv)

\* const includePattern = envString("GENAISCRIPT_MESSAGE_INCLUDE")
includePattern(in) == envString(in.includeEnv)

includeKeeps_any(in, file) == TRUE

\* the callback of stagedFiles.filter: matchesInclude && !matchesExclude
includeKeeps(in, file) ==
  /\ minimatch(file, includePattern(in).arr)
  /\ ~\E i \in DOMAIN excludedPaths(in) :
        minimatch(file, excludedPaths(in)[i])

InitMessage ==
  /\ mIn \in MsgInputs
  /\ mPc = "start"
  /\ chunks = 0
  /\ chunkIdx = 0
  /\ message = <<>>
  /\ commitMessage = <<>>
  /\ runLog = <<>>
  /\ outputs = <<>>
  /\ summaryResult = NoResult
  /\ commits = <<>>
  /\ outcome = "none"
  /\ mResult = Ret(Undefined)
  /\ diffOptions = NoDiffOptions
  /\ GcmIdle
  /\ ExtraIdle
  /\ caller = "message"
  /\ envFiles = Arr(<<>>)
  /\ procEnv = MkEnv(Undefined, Undefined)
  /\ args = NoArgs
  /\ index = {}
  /\ pending = {}
  /\ index0 = {}
  /\ pending0 = {}
  /\ pc = "idle"
  /\ source = "unset"
  /\ result = Ret(Undefined)
  /\ stagePc = "idle"
  /\ listCalls = 0
  /\ execLog = <<>>
  /\ stylePc = "idle"
  /\ styleIdx = 0
  /\ modelCalls = 0
  /\ writes = 0
  /\ styleResult = NoResult
  /\ styleGuide = OriginalGuide
  /\ fIn = NoFilterCall
  /\ fOut = Ret(Undefined)
  /\ fPc = "idle"
  /\ callNo = 1
  /\ first = [pc |-> "idle", result |-> Ret(Undefined)]

resolverVars ==
  <<pc, source, result, stagePc, listCalls, execLog, gitVars, inputVars,
    styleVars, filterVars, againVars>>

\* what message() leaves alone
msgOthers == <<resolverVars, gcmVars, extraVars>>

\* the code before git.diff: with an include pattern the staged files are
\* listed first, without one git.diff is called with the excluded paths
\* what the promise of message() settles to: every `return;`, the end of the
\* body and the catch block, which only logs, resolve it with undefined
messageSettles(how) == Ret(Undefined)

MsgStart ==
  /\ mPc = "start"
  /\ IF mIn.variant = "part_004" /\ includePattern(mIn) # Undefined
       THEN mPc' = "listing" /\ diffOptions' = diffOptions
       ELSE /\ mPc' = "diffing"
            /\ diffOptions' =
                 [diffOptions EXCEPT !.excludedPaths = Arr(excludedPaths(mIn))]
  /\ mResult' = IF mPc' = "done" THEN messageSettles(outcome') ELSE mResult
  /\ UNCHANGED <<mIn, chunks, chunkIdx, message, commitMessage, runLog,
                 outputs, summaryResult, commits, outcome, msgOthers>>

\* git.listFiles("staged") resolved: keep the files the include pattern
\* matches and no excluded path matches; return when none is left, else call
\* git.diff for them
MsgListed ==
  /\ mPc = "listing"
  /\ LET keeps(file) == includeKeeps(mIn, file)
         filteredFiles == SelectSeq(mIn.staged, keeps)
     IN IF Len(mIn.staged) = 0
          THEN mPc' = "diffing" /\ UNCHANGED <<diffOptions, outcome>>
          ELSE IF Len(filteredFiles) = 0
            THEN mPc' = "done" /\ outcome' = "noMatch"
                   /\ diffOptions' = diffOptions
            ELSE /\ mPc' = "diffing"
                 /\ diffOptions' =
                      [diffOptions EXCEPT !.paths = Arr(filteredFiles)]
                 /\ outcome' = outcome
  /\ mResult' = IF mPc' = "done" THEN messageSettles(outcome') ELSE mResult
  /\ UNCHANGED <<mIn, chunks, chunkIdx, message, commitMessage, runLog,
                 outputs, summaryResult, commits, msgOthers>>

\* git.diff resolved: return on an empty diff, else call tokenizers.chunk
MsgDiffDone ==
  /\ mPc = "diffing"
  /\ IF diffIsEmpty(mIn.diff)
       THEN mPc' = "done" /\ outcome' = "noChanges"
       ELSE mPc' = "chunking" /\ outcome' = outcome
  /\ mResult' = IF mPc' = "done" THEN messageSettles(outcome') ELSE mResult
  /\ UNCHANGED <<mIn, chunks, chunkIdx, message, commitMessage, runLog,
                 outputs, summaryResult, commits, diffOptions,
                 msgOthers>>

\* tokenizers.chunk resolved: return when over the ceiling, else enter the
\* loop and call runPrompt for the first chunk
MsgChunked ==
  /\ mPc = "chunking"
  /\ chunks' = numChunks(mIn.diff, chunkSizeOf(mIn))
  /\ IF exceedsCeiling(mIn, chunks')
       THEN /\ mPc' = "done"
            /\ outcome' = "tooLarge"
            /\ UNCHANGED <<chunkIdx, runLog>>
       ELSE /\ mPc' = "prompt"
            /\ chunkIdx' = 1
            /\ runLog' = Append(runLog, ChunkCall(mIn, 1))
            /\ outcome' = outcome
  /\ mResult' = IF mPc' = "done" THEN messageSettles(outcome') ELSE mResult
  /\ UNCHANGED <<mIn, message, commitMessage, outputs, summaryResult,
                 commits, diffOptions,
                 msgOthers>>

\* from `if (!commitMessage)` on: return, or call git commit
Finalize(cm) ==
  /\ commitMessage' = cm
  /\ IF Len(cm) = 0
       THEN mPc' = "done" /\ outcome' = "noMessage" /\ commits' = commits
       ELSE mPc' = "committing" /\ outcome' = outcome
              /\ commits' = Append(commits, cm)

\* runPrompt resolved for a chunk: the rest of the loop body, then the next
\* chunk's call or, after the last chunk, the code up to the next await
MsgPromptDone ==
  /\ mPc = "prompt"
  /\ \E r \in Responses :
       /\ outputs' = Append(outputs, r)
       /\ message' = appendOutput(message, r)
       /\ IF chunkIdx < chunks
            THEN /\ chunkIdx' = chunkIdx + 1
                 /\ runLog' = Append(runLog, ChunkCall(mIn, chunkIdx + 1))
                 /\ UNCHANGED <<mPc, commitMessage, commits, outcome>>
            ELSE /\ chunkIdx' = chunkIdx
                 /\ IF needsSummary(chunks)
                      THEN /\ commitMessage' = trim(message')
                           /\ runLog' = Append(runLog, SummaryCall(message'))
                           /\ mPc' = "summary"
                           /\ UNCHANGED <<commits, outcome>>
                      ELSE /\ Finalize(trim(message'))
                           /\ runLog' = runLog
  /\ mResult' = IF mPc' = "done" THEN messageSettles(outcome') ELSE mResult
  /\ UNCHANGED <<mIn, chunks, summaryResult, diffOptions,
                 msgOthers>>

\* runPrompt resolved for the summary
MsgSummaryDone ==
  /\ mPc = "summary"
  /\ \E r \in Responses :
       /\ summaryResult' = r
       /\ Finalize(afterSummary(commitMessage, r))
  /\ mResult' = IF mPc' = "done" THEN messageSettles(outcome') ELSE mResult
  /\ UNCHANGED <<mIn, chunks, chunkIdx, message, runLog, outputs,
                 diffOptions,
                 msgOthers>>

\* runPrompt rejected: the catch block logs the error
MsgPromptThrew ==
  /\ mPc \in {"prompt", "summary"}
  /\ mPc' = "done"
  /\ outcome' = "caught"
  /\ mResult' = IF mPc' = "done" THEN messageSettles(outcome') ELSE mResult
  /\ UNCHANGED <<mIn, chunks, chunkIdx, message, commitMessage, runLog,
                 outputs, summaryResult, commits, diffOptions,
                 msgOthers>>

\* git.exec(["commit", "-m", commitMessage]) settled
MsgCommitDone ==
  /\ mPc = "committing"
  /\ mPc' = "done"
  /\ \E ok \in BOOLEAN : outcome' = IF ok THEN "committed" ELSE "caught"
  /\ mResult' = IF mPc' = "done" THEN messageSettles(outcome') ELSE mResult
  /\ UNCHANGED <<mIn, chunks, chunkIdx, message, commitMessage, runLog,
                 outputs, summaryResult, commits, diffOptions,
                 msgOthers>>

NextMessage ==
  \/ MsgStart
  \/ MsgListed
  \/ MsgDiffDone
  \/ MsgChunked
  \/ MsgPromptDone
  \/ MsgSummaryDone
  \/ MsgPromptThrew
  \/ MsgCommitDone

SpecMessage == InitMessage /\ [][NextMessage]_vars

\* ------------------------------------------------------------ the gcm script
\* The commit-message script of packages/style that asks for confirmation
\* before a big diff and lets the user accept, edit or regenerate the text.

\* largest number of generation rounds
MaxRounds == 2

GcmChunkSize == 10000
GcmMaxChunks == 4

\* a setting read from the environment: unset, or the parsed number
GcmSettings(max) ==
  {[set |-> FALSE, n |-> 0]} \cup {[set |-> TRUE, n |-> k] : k \in 1..max}

\* isDefined(process.env.X) ? parseInt(process.env.X) : default
gcmSetting(s, default) == IF s.set THEN s.n ELSE default

gcmChunkSize(in) == gcmSetting(in.chunkSize, GcmChunkSize)
gcmMaxChunks(in) == gcmSetting(in.maxChunks, GcmMaxChunks)

\* chunks.length > 1 && chunks.length > maxChunks && !auto
asksConfirmation(in, n) == n > 1 /\ n > gcmMaxChunks(in) /\ ~in.auto

GcmCall(kind, idx, text) == [kind |-> kind, idx |-> idx, text |-> text]

\* the runs whose diff splits into few enough chunks to follow
GcmInputs ==
  {in \in [auto : BOOLEAN, hasStaged : BOOLEAN, diff : DiffSizes,
           chunkSize : GcmSettings(MaxChunkSizeEnv),
           maxChunks : GcmSettings(MaxChunkMaxEnv)] :
     numChunks(in.diff, gcmChunkSize(in)) <= GcmMaxChunks + 1}

Choices == {"commit", "edit", "regenerate", "cancel", "undefined"}

InitGcm ==
  /\ gIn \in GcmInputs
  /\ gPc = "start"
  /\ gChunks = 0
  /\ gIdx = 0
  /\ gMessage = <<>>
  /\ gLog = <<>>
  /\ gConfirm = "notAsked"
  /\ gRound = 0
  /\ gOutcome = "none"
  /\ MsgIdle
  /\ ExtraIdle
  /\ caller = "gcm"
  /\ envFiles = Arr(<<>>)
  /\ procEnv = MkEnv(Undefined, Undefined)
  /\ args = NoArgs
  /\ index = {}
  /\ pending = {}
  /\ index0 = {}
  /\ pending0 = {}
  /\ pc = "idle"
  /\ source = "unset"
  /\ result = Ret(Undefined)
  /\ stagePc = "idle"
  /\ listCalls = 0
  /\ execLog = <<>>
  /\ stylePc = "idle"
  /\ styleIdx = 0
  /\ modelCalls = 0
  /\ writes = 0
  /\ styleResult = NoResult
  /\ styleGuide = OriginalGuide
  /\ fIn = NoFilterCall
  /\ fOut = Ret(Undefined)
  /\ fPc = "idle"
  /\ callNo = 1
  /\ first = [pc |-> "idle", result |-> Ret(Undefined)]

otherVars == <<resolverVars, msgVars, extraVars>>

\* git.exec(["diff", "--cached", "--name-only"]) resolved: stage everything
\* in auto mode with nothing staged, else call git.diff
GcmStagedChecked ==
  /\ gPc = "start"
  /\ IF gIn.auto /\ ~gIn.hasStaged
       THEN gPc' = "adding" /\ gLog' = Append(gLog, GcmCall("add", 0, <<>>))
       ELSE gPc' = "diffing" /\ gLog' = gLog
  /\ UNCHANGED <<gIn, gChunks, gIdx, gMessage, gConfirm, gRound, gOutcome,
                 otherVars>>

\* git.exec(["add", "-A"]) resolved
GcmAddDone ==
  /\ gPc = "adding"
  /\ gPc' = "diffing"
  /\ UNCHANGED <<gIn, gChunks, gIdx, gMessage, gLog, gConfirm, gRound,
                 gOutcome, otherVars>>

\* git.diff resolved: cancel on an empty diff, else call tokenizers.chunk
GcmDiffDone ==
  /\ gPc = "diffing"
  /\ IF diffIsEmpty(gIn.diff)
       THEN gPc' = "done" /\ gOutcome' = "cancelled"
       ELSE gPc' = "chunking" /\ gOutcome' = gOutcome
  /\ UNCHANGED <<gIn, gChunks, gIdx, gMessage, gLog, gConfirm, gRound,
                 otherVars>>

\* the top of the do-while body: message = "" and the first chunk's call
StartRound ==
  /\ gRound' = gRound + 1
  /\ gMessage' = <<>>
  /\ gIdx' = 1
  /\ gPc' = "prompt"
  /\ gLog' = Append(gLog, GcmCall("chunk", 1, <<>>))

\* tokenizers.chunk resolved: ask before a big diff unless in auto mode
GcmChunked ==
  /\ gPc = "chunking"
  /\ gChunks' = numChunks(gIn.diff, gcmChunkSize(gIn))
  /\ IF asksConfirmation(gIn, gChunks')
       THEN /\ gPc' = "confirming"
            /\ gConfirm' = "asked"
            /\ UNCHANGED <<gIdx, gMessage, gLog, gRound>>
       ELSE /\ StartRound
            /\ gConfirm' = gConfirm
  /\ UNCHANGED <<gIn, gOutcome, otherVars>>

\* host.confirm resolved
GcmConfirmDone ==
  /\ gPc = "confirming"
  /\ \E res \in BOOLEAN :
       IF res
         THEN /\ gConfirm' = "yes"
              /\ StartRound
              /\ gOutcome' = gOutcome
         ELSE /\ gConfirm' = "no"
              /\ gPc' = "done"
              /\ gOutcome' = "cancelled"
              /\ UNCHANGED <<gIdx, gMessage, gLog, gRound>>
  /\ UNCHANGED <<gIn, gChunks, otherVars>>

\* the same without the `if (!message) break` of the loop
AfterMessage_noGuard(m) ==
  /\ gMessage' = trim(m)
  /\ IF gIn.auto
       THEN /\ gPc' = "committing"
            /\ gLog' = Append(gLog, GcmCall("commit", 0, trim(m)))
            /\ gOutcome' = gOutcome
       ELSE /\ gPc' = "selecting"
            /\ gLog' = Append(gLog, GcmCall("select", 0, trim(m)))
            /\ gOutcome' = gOutcome

\* from `message = message?.trim()` on: break on an empty text, commit at
\* once in auto mode, else ask the user
AfterMessage(m) ==
  /\ gMessage' = trim(m)
  /\ IF Len(trim(m)) = 0
       THEN gPc' = "done" /\ gOutcome' = "noMessage" /\ gLog' = gLog
       ELSE IF gIn.auto
         THEN /\ gPc' = "committing"
              /\ gLog' = Append(gLog, GcmCall("commit", 0, trim(m)))
              /\ gOutcome' = gOutcome
         ELSE /\ gPc' = "selecting"
              /\ gLog' = Append(gLog, GcmCall("select", 0, trim(m)))
              /\ gOutcome' = gOutcome

\* runPrompt resolved for a chunk: throw on an error, else append the text
\* and go on to the next chunk, the summary or the end of the round
GcmPromptDone ==
  /\ gPc = "prompt"
  /\ \E r \in Responses :
       IF r.error
         THEN /\ gPc' = "done"
              /\ gOutcome' = "threw"
              /\ UNCHANGED <<gIdx, gMessage, gLog>>
         ELSE LET m == gMessage \o extract(r) \o <<"\n">>
              IN IF gIdx < gChunks
                   THEN /\ gIdx' = gIdx + 1
                        /\ gMessage' = m
                        /\ gLog' = Append(gLog, GcmCall("chunk", gIdx + 1, <<>>))
                        /\ UNCHANGED <<gPc, gOutcome>>
                   ELSE /\ gIdx' = gIdx
                        /\ IF gChunks > 1
                             THEN /\ gMessage' = m
                                  /\ gPc' = "summary"
                                  /\ gLog' = Append(gLog,
                                               GcmCall("summarize", 0, <<>>))
                                  /\ gOutcome' = gOutcome
                             ELSE AfterMessage(m)
  /\ UNCHANGED <<gIn, gChunks, gConfirm, gRound, otherVars>>

\* runPrompt resolved for the summary: message = res.text
GcmSummaryDone ==
  /\ gPc = "summary"
  /\ \E r \in Responses :
       IF r.error
         THEN /\ gPc' = "done"
              /\ gOutcome' = "threw"
              /\ UNCHANGED <<gMessage, gLog>>
         ELSE AfterMessage(r.text)
  /\ UNCHANGED <<gIn, gChunks, gIdx, gConfirm, gRound, otherVars>>

\* runPrompt rejected
GcmPromptThrew ==
  /\ gPc \in {"prompt", "summary"}
  /\ gPc' = "done"
  /\ gOutcome' = "rejected"
  /\ UNCHANGED <<gIn, gChunks, gIdx, gMessage, gLog, gConfirm, gRound,
                 otherVars>>

\* gitPush: ask before pushing, never in auto mode
GitPush ==
  IF gIn.auto
    THEN gPc' = "done" /\ gOutcome' = "committed" /\ gLog' = gLog
    ELSE /\ gPc' = "pushConfirming"
         /\ gLog' = Append(gLog, GcmCall("confirmPush", 0, <<>>))
         /\ gOutcome' = gOutcome

\* host.select resolved
GcmSelectDone ==
  /\ gPc = "selecting"
  /\ \E choice \in Choices :
       CASE choice = "edit" ->
              \E status \in {0, 1} :
                /\ gLog' = Append(gLog, GcmCall("commitEdit", 0, gMessage))
                       \o (IF status = 0
                             THEN <<GcmCall("confirmPush", 0, <<>>)>>
                             ELSE <<>>)
                /\ gPc' = IF status = 0 THEN "pushConfirming" ELSE "done"
                /\ gOutcome' = IF status = 0 THEN gOutcome ELSE "editFailed"
                /\ UNCHANGED <<gIdx, gMessage, gRound>>
         [] choice = "commit" ->
              /\ gLog' = Append(gLog, GcmCall("commit", 0, gMessage))
              /\ gPc' = "committing"
              /\ UNCHANGED <<gIdx, gMessage, gRound, gOutcome>>
         [] choice = "cancel" ->
              /\ gPc' = "done"
              /\ gOutcome' = "cancelled"
              /\ UNCHANGED <<gIdx, gMessage, gLog, gRound>>
         [] OTHER ->
              /\ gRound < MaxRounds
              /\ StartRound
              /\ gOutcome' = gOutcome
  /\ UNCHANGED <<gIn, gChunks, gConfirm, otherVars>>

\* git.exec(["commit", "-m", message]) resolved
GcmCommitDone ==
  /\ gPc = "committing"
  /\ GitPush
  /\ UNCHANGED <<gIn, gChunks, gIdx, gMessage, gConfirm, gRound, otherVars>>

\* host.confirm("Push changes?") resolved
GcmPushConfirmDone ==
  /\ gPc = "pushConfirming"
  /\ \E res \in BOOLEAN :
       gLog' = IF res THEN Append(gLog, GcmCall("push", 0, <<>>)) ELSE gLog
  /\ gPc' = "done"
  /\ gOutcome' = "committed"
  /\ UNCHANGED <<gIn, gChunks, gIdx, gMessage, gConfirm, gRound, otherVars>>

NextGcm ==
  \/ GcmStagedChecked
  \/ GcmAddDone
  \/ GcmDiffDone
  \/ GcmChunked
  \/ GcmConfirmDone
  \/ GcmPromptDone
  \/ GcmSummaryDone
  \/ GcmPromptThrew
  \/ GcmSelectDone
  \/ GcmCommitDone
  \/ GcmPushConfirmDone

SpecGcm == InitGcm /\ [][NextGcm]_vars

\* the two flows that run git commit with a generated message: a run is one
\* of message() or the gcm script
InitMessageOrGcm == InitMessage \/ InitGcm

NextMessageOrGcm == NextMessage \/ NextGcm

SpecMessageOrGcm == InitMessageOrGcm /\ [][NextMessageOrGcm]_vars

\* --------------------------------------------- settings from the environment
\* longest string of digits, signs, blanks and letters tried as a number
MaxEnvLen == 2

NumChars == {"0", "1", "-", "a", " "}

\* a JavaScript number: NaN, or an integer
JsNum(nan, n) == [nan |-> nan, n |-> n]

Digits == <<"0", "1", "2", "3", "4", "5", "6", "7", "8", "9">>
IsDigit(c) == \E i \in DOMAIN Digits : Digits[i] = c
DigitVal(c) == (CHOOSE i \in DOMAIN Digits : Digits[i] = c) - 1

RECURSIVE digitsValue(_)
digitsValue(ds) ==
  IF ds = <<>>
    THEN 0
    ELSE 10 * digitsValue(SubSeq(ds, 1, Len(ds) - 1)) + DigitVal(ds[Len(ds)])

\* String.prototype.trimStart
trimStart(s) ==
  IF \A i \in DOMAIN s : s[i] \in WhiteSpace
    THEN <<>>
    ELSE LET lo == CHOOSE i \in DOMAIN s :
                     s[i] \notin WhiteSpace
                       /\ \A j \in 1..(i - 1) : s[j] \in WhiteSpace
         IN SubSeq(s, lo, Len(s))

\* Number(value) on a string: blank is 0, an optionally signed run of digits
\* is its value, anything else is NaN
Number(s) ==
  LET t == trim(s)
      signed == t # <<>> /\ t[1] \in {"-", "+"}
      body == IF signed THEN Tail(t) ELSE t
  IN IF t = <<>> THEN JsNum(FALSE, 0)
     ELSE IF body # <<>> /\ \A i \in DOMAIN body : IsDigit(body[i])
       THEN JsNum(FALSE, IF t[1] = "-" THEN 0 - digitsValue(body)
                         ELSE digitsValue(body))
     ELSE JsNum(TRUE, 0)

\* parseInt(value): the optionally signed digits the string starts with after
\* leading blanks, NaN when there are none
parseInt(s) ==
  LET t == trimStart(s)
      signed == t # <<>> /\ t[1] \in {"-", "+"}
      body == IF signed THEN Tail(t) ELSE t
      len == IF \A i \in DOMAIN body : IsDigit(body[i])
               THEN Len(body)
               ELSE (CHOOSE i \in DOMAIN body :
                       ~IsDigit(body[i])
                         /\ \A j \in 1..(i - 1) : IsDigit(body[j])) - 1
  IN IF len = 0 THEN JsNum(TRUE, 0)
     ELSE JsNum(FALSE, IF t[1] = "-" THEN 0 - digitsValue(SubSeq(body, 1, len))
                       ELSE digitsValue(SubSeq(body, 1, len)))

\* envNumber, given process.env[key]
envNumber(value) ==
  IF value.tag = "undefined" \/ Len(value.arr) = 0
    THEN 0
    ELSE LET number == Number(value.arr)
         IN IF number.nan THEN 0 ELSE number.n

\* isDefined(process.env.X) ? parseInt(process.env.X) : default
gcmNumber(value, default) ==
  IF value.tag # "undefined" THEN parseInt(value.arr) ELSE JsNum(FALSE, default)

\* parseBoolean: "true", "false", or an Error
parseBoolean(value) ==
  IF value = S_true THEN [tag |-> "boolean", nan |-> FALSE, n |-> 0, b |-> TRUE]
  ELSE IF value = S_false
    THEN [tag |-> "boolean", nan |-> FALSE, n |-> 0, b |-> FALSE]
  ELSE [tag |-> "threw", nan |-> FALSE, n |-> 0, b |-> FALSE]

\* isDefined(process.env.X) ? parseBoolean(process.env.X) : default
gcmBoolean(value, default) ==
  IF value.tag # "undefined"
    THEN parseBoolean(value.arr)
    ELSE [tag |-> "boolean", nan |-> FALSE, n |-> 0, b |-> default]

NumberSetting(num) == [tag |-> "number", nan |-> num.nan, n |-> num.n, b |-> FALSE]

MessageNumberKeys ==
  {"GENAISCRIPT_MESSAGE_CHUNK_SIZE", "GENAISCRIPT_MESSAGE_CHUNK_MAX"}
GcmNumberKeys == {"GENAISCRIPT_GCM_CHUNK_SIZE", "GENAISCRIPT_GCM_MAX_CHUNKS"}
EnvBooleanKeys == {"GENAISCRIPT_STAGE_ALL"}
GcmBooleanKeys == {"GENAISCRIPT_GCM_AUTO", "GENAISCRIPT_GCM_GITMOJI"}

\* the documented default of a setting
DefaultOf(key) ==
  CASE key = "GENAISCRIPT_MESSAGE_CHUNK_SIZE" -> DefaultChunkSize
    [] key = "GENAISCRIPT_MESSAGE_CHUNK_MAX" -> DefaultChunkMax
    [] key = "GENAISCRIPT_GCM_CHUNK_SIZE" -> GcmChunkSize
    [] key = "GENAISCRIPT_GCM_MAX_CHUNKS" -> GcmMaxChunks

S_True == <<"T", "r", "u", "e">>
S_yes == <<"y", "e", "s">>

EnvValues ==
  {Undefined}
    \cup {Str(s) : s \in SeqsUpTo(NumChars, MaxEnvLen)}
    \cup {Str(S_true), Str(S_TRUE), Str(S_True), Str(S_false), Str(S_yes)}

InitEnv ==
  /\ eIn \in [key : MessageNumberKeys \cup GcmNumberKeys \cup EnvBooleanKeys
                      \cup GcmBooleanKeys,
              value : EnvValues]
  /\ eOut = NoSetting
  /\ ePc = "start"
  /\ MsgIdle
  /\ GcmIdle
  /\ CommentIdle
  /\ WorkflowIdle
  /\ VersionIdle
  /\ caller = "settings"
  /\ envFiles = Arr(<<>>)
  /\ procEnv = MkEnv(Undefined, Undefined)
  /\ args = NoArgs
  /\ index = {}
  /\ pending = {}
  /\ index0 = {}
  /\ pending0 = {}
  /\ pc = "idle"
  /\ source = "unset"
  /\ result = Ret(Undefined)
  /\ stagePc = "idle"
  /\ listCalls = 0
  /\ execLog = <<>>
  /\ stylePc = "idle"
  /\ styleIdx = 0
  /\ modelCalls = 0
  /\ writes = 0
  /\ styleResult = NoResult
  /\ styleGuide = OriginalGuide
  /\ fIn = NoFilterCall
  /\ fOut = Ret(Undefined)
  /\ fPc = "idle"
  /\ callNo = 1
  /\ first = [pc |-> "idle", result |-> Ret(Undefined)]

envOthers ==
  <<resolverVars, msgVars, gcmVars, commentVars, workflowVars, versionVars>>

\* const chunkSize = envNumber(...) || 1000; const chunkMax = envNumber(...) || 10
ReadMessageNumber ==
  /\ ePc = "start"
  /\ eIn.key \in MessageNumberKeys
  /\ eOut' = NumberSetting(JsNum(FALSE,
               orDefault(envNumber(eIn.value), DefaultOf(eIn.key))))
  /\ ePc' = "done"
  /\ UNCHANGED <<eIn, envOthers>>

\* const chunkSize = ..., const maxChunks = ... of gcm
ReadGcmNumber ==
  /\ ePc = "start"
  /\ eIn.key \in GcmNumberKeys
  /\ eOut' = NumberSetting(gcmNumber(eIn.value, DefaultOf(eIn.key)))
  /\ ePc' = "done"
  /\ UNCHANGED <<eIn, envOthers>>

\* envBoolean(key)
ReadEnvBoolean ==
  /\ ePc = "start"
  /\ eIn.key \in EnvBooleanKeys
  /\ eOut' = [tag |-> "boolean", nan |-> FALSE, n |-> 0,
              b |-> envBoolean([k \in {K_STAGE_ALL} |-> eIn.value],
                               Str(K_STAGE_ALL))]
  /\ ePc' = "done"
  /\ UNCHANGED <<eIn, envOthers>>

\* const gitmoji = ..., const auto = ... of gcm
ReadGcmBoolean ==
  /\ ePc = "start"
  /\ eIn.key \in GcmBooleanKeys
  /\ eOut' = gcmBoolean(eIn.value, eIn.key = "GENAISCRIPT_GCM_GITMOJI")
  /\ ePc' = "done"
  /\ UNCHANGED <<eIn, envOthers>>

NextEnv ==
  \/ ReadMessageNumber
  \/ ReadGcmNumber
  \/ ReadEnvBoolean
  \/ ReadGcmBoolean

SpecEnv == InitEnv /\ [][NextEnv]_vars

\* ---------------------------------------------------------- the comment flow
\* comment(): the files of env.files, else the staged files, else everything
\* after `git add -A`; those with an allowed extension are rewritten one by
\* one.  index is the set of paths with staged changes, pending the set of
\* paths with changes that are not staged.

\* const allowedExtensions = ...split(',').map(ext => ext.trim().toLowerCase())
allowedExtensions(value) ==
  IF value.tag = "undefined" \/ Len(value.arr) = 0
    THEN <<>>
    ELSE LET items == split(value.arr, ",")
         IN [i \in DOMAIN items |-> toLowerCase(trim(items[i]))]

\* the callback of filesToComment.filter
commentKeeps(allowed, filePath) == includes(allowed, ext(filePath))

E_ts_md == <<"t", "s", ",", " ", "M", "D">>

CommentExtensions == {Undefined, Str(T_ts), Str(T_md), Str(E_ts_md)}

InitComment ==
  /\ cIn \in [extensions : CommentExtensions]
  /\ cPc = "start"
  /\ filesToComment = <<>>
  /\ filesThatWereStaged = <<>>
  /\ filesWeStaged = <<>>
  /\ cIdx = 0
  /\ rewritten = {}
  /\ cOutcome = "none"
  /\ cPrompt = NoPrompt
  /\ cResult = NoCommentResult
  /\ caller = "comment"
  /\ envFiles \in {Arr(s) : s \in SeqsUpTo(TreePaths, MaxExplicit)}
  /\ index \in {S \in SUBSET TreePaths : Cardinality(S) <= MaxStaged}
  /\ pending \in {S \in SUBSET (TreePaths \ index) : Cardinality(S) <= MaxPending}
  /\ index0 = index
  /\ pending0 = pending
  /\ procEnv = MkEnv(Undefined, Undefined)
  /\ args = NoArgs
  /\ pc = "idle"
  /\ source = "unset"
  /\ result = Ret(Undefined)
  /\ stagePc = "idle"
  /\ listCalls = 0
  /\ execLog = <<>>
  /\ stylePc = "idle"
  /\ styleIdx = 0
  /\ modelCalls = 0
  /\ writes = 0
  /\ styleResult = NoResult
  /\ styleGuide = OriginalGuide
  /\ fIn = NoFilterCall
  /\ fOut = Ret(Undefined)
  /\ fPc = "idle"
  /\ callNo = 1
  /\ first = [pc |-> "idle", result |-> Ret(Undefined)]
  /\ MsgIdle
  /\ GcmIdle
  /\ EnvIdle
  /\ WorkflowIdle
  /\ VersionIdle

\* what comment() leaves alone
commentOthers ==
  <<pc, source, result, stagePc, listCalls, inputVars, styleVars, filterVars,
    againVars, msgVars, gcmVars, envVars, workflowVars, versionVars>>

\* from the extension filter on: return when nothing is left, else enter the
\* loop and read the first file
FilterAndLoop(files) ==
  LET allowed == allowedExtensions(cIn.extensions)
      keeps(file) == commentKeeps(allowed, file)
      filteredFiles == SelectSeq(files, keeps)
  IN /\ filesToComment' = filteredFiles
     /\ IF Len(filteredFiles) = 0
          THEN cPc' = "done" /\ cOutcome' = "nothing" /\ cIdx' = cIdx
          ELSE cPc' = "processing" /\ cOutcome' = cOutcome /\ cIdx' = 1

\* comment() up to its first await
CommentEnter ==
  /\ cPc = "start"
  /\ IF Len(allowedExtensions(cIn.extensions)) = 0
       THEN /\ cPc' = "done"
            /\ cOutcome' = "noExtensions"
            /\ UNCHANGED <<filesToComment, cIdx>>
       ELSE IF Len(envFiles.arr) > 0
         THEN FilterAndLoop(envFiles.arr)
         ELSE /\ cPc' = "listing"
              /\ UNCHANGED <<filesToComment, cIdx, cOutcome>>
  /\ UNCHANGED <<callVars, cIn, filesThatWereStaged, filesWeStaged, rewritten, execLog,
                 gitVars, commentOthers>>

\* git diff --cached --name-only resolved: use the staged files, or stage
\* everything
CommentListed ==
  /\ cPc = "listing"
  /\ IF index # {}
       THEN /\ filesThatWereStaged' = listFiles(index)
            /\ FilterAndLoop(listFiles(index))
            /\ execLog' = execLog
       ELSE /\ cPc' = "addingAll"
            /\ execLog' = Append(execLog, [cmd |-> "add -A", path |-> <<>>])
            /\ UNCHANGED <<filesToComment, filesThatWereStaged, cIdx, cOutcome>>
  /\ UNCHANGED <<callVars, cIn, filesWeStaged, rewritten, gitVars, commentOthers>>

\* git add -A resolved: list the staged files again
CommentAddAllDone ==
  /\ cPc = "addingAll"
  /\ index' = index \cup pending
  /\ pending' = {}
  /\ cPc' = "listingAgain"
  /\ UNCHANGED <<callVars, cIn, filesToComment, filesThatWereStaged, filesWeStaged,
                 cIdx, rewritten, cOutcome, execLog, commentOthers>>

\* the second listing resolved
CommentListedAgain ==
  /\ cPc = "listingAgain"
  /\ IF index # {}
       THEN /\ filesWeStaged' = listFiles(index)
            /\ FilterAndLoop(listFiles(index))
       ELSE /\ cPc' = "done"
            /\ cOutcome' = "nothingToStage"
            /\ UNCHANGED <<filesToComment, filesWeStaged, cIdx>>
  /\ UNCHANGED <<callVars, cIn, filesThatWereStaged, rewritten, execLog, gitVars,
                 commentOthers>>

\* a git call of the lookup rejected: the catch block logs and returns
CommentGitThrew ==
  /\ cPc \in {"listing", "addingAll", "listingAgain"}
  /\ cPc' = "done"
  /\ cOutcome' = "gitError"
  /\ UNCHANGED <<callVars, cIn, filesToComment, filesThatWereStaged, filesWeStaged,
                 cIdx, rewritten, execLog, gitVars, commentOthers>>

\* the end of a loop iteration: the next file, or the code after the loop
NextFile ==
  IF cIdx < Len(filesToComment)
    THEN /\ cIdx' = cIdx + 1
         /\ cPc' = "processing"
         /\ UNCHANGED <<cOutcome, execLog>>
    ELSE /\ cIdx' = cIdx
         /\ IF Len(filesWeStaged) > 0
              THEN /\ cPc' = "unstaging"
                   /\ execLog' = Append(execLog,
                                   [cmd |-> "restore --staged", path |-> <<".">>])
                   /\ cOutcome' = cOutcome
              ELSE /\ cPc' = "done"
                   /\ cOutcome' = "finished"
                   /\ execLog' = execLog

\* the content of every file before comment() runs
OriginalContent == <<"c">>

ErrorText == <<"e", "r", "r">>
NoOutputError ==
  <<"N","o"," ","o","u","t","p","u","t"," ","r","e","t","u","r","n","e","d"," ","f","r","o","m"," ","L","L","M">>

\* how workspace.readText settles: the content, an empty file, a rejection
ReadOutcomes == {"content", "empty", "threw"}

\* how runPrompt settles in addCommentsToFile
PromptOutcomes ==
  {Resolved(Result(FALSE, <<>>, <<"x">>)),
   Resolved(Result(TRUE, <<>>, <<"e">>)),
   Resolved(Result(FALSE, <<>>, <<>>)),
   Rejected(<<"m">>),
   Rejected(<<>>)}

\* addCommentsToFile(file, fileContent), given how runPrompt settled
addCommentsToFile(fileContent, p) ==
  IF p.rejected
    THEN [content |-> fileContent, error |-> Str(p.message)]
  ELSE IF p.result.error
    THEN [content |-> fileContent, error |-> Str(ErrorText)]
  ELSE IF p.result.text = <<>>
    THEN [content |-> fileContent, error |-> Str(NoOutputError)]
  ELSE [content |-> p.result.text, error |-> Undefined]

\* the test of line 102: the file is skipped
skipsFile(r) == Truthy(r.error)

\* workspace.readText and addCommentsToFile settled: skip the file when it is
\* empty, when reading threw or when the result carries an error, else write
\* the content back
CommentFileProcessed ==
  /\ cPc = "processing"
  /\ \E read \in ReadOutcomes, p \in PromptOutcomes :
       LET r == addCommentsToFile(OriginalContent, p)
       IN IF read = "content" /\ ~skipsFile(r)
            THEN /\ cPc' = "writing"
                 /\ cPrompt' = p
                 /\ cResult' = r
                 /\ UNCHANGED <<cIdx, cOutcome, execLog>>
            ELSE /\ NextFile
                 /\ UNCHANGED callVars
  /\ UNCHANGED <<cIn, filesToComment, filesThatWereStaged, filesWeStaged,
                 rewritten, gitVars, commentOthers>>

\* a write that stages what it wrote
CommentWriteDone_staging ==
  /\ cPc = "writing"
  /\ rewritten' = rewritten \cup {filesToComment[cIdx]}
  /\ index' = index \cup {filesToComment[cIdx]}
  /\ pending' = pending \ {filesToComment[cIdx]}
  /\ cPrompt' = NoPrompt
  /\ cResult' = NoCommentResult
  /\ NextFile
  /\ UNCHANGED <<cIn, filesToComment, filesThatWereStaged, filesWeStaged,
                 commentOthers>>

\* workspace.writeText resolved: stage the file again when it was staged
\* before
CommentWriteDone ==
  /\ cPc = "writing"
  /\ rewritten' = rewritten \cup {filesToComment[cIdx]}
  /\ pending' = IF cResult.content # OriginalContent
                  THEN pending \cup {filesToComment[cIdx]}
                  ELSE pending
  /\ index' = index
  /\ cPrompt' = NoPrompt
  /\ cResult' = NoCommentResult
  /\ IF includes(filesThatWereStaged, filesToComment[cIdx])
       THEN /\ cPc' = "restaging"
            /\ execLog' = Append(execLog,
                            [cmd |-> "add", path |-> filesToComment[cIdx]])
            /\ UNCHANGED <<cIdx, cOutcome>>
       ELSE NextFile
  /\ UNCHANGED <<cIn, filesToComment, filesThatWereStaged, filesWeStaged,
                 commentOthers>>

\* git add filePath resolved
CommentRestageDone ==
  /\ cPc = "restaging"
  /\ index' = index \cup {filesToComment[cIdx]}
  /\ pending' = pending \ {filesToComment[cIdx]}
  /\ NextFile
  /\ UNCHANGED <<callVars, cIn, filesToComment, filesThatWereStaged, filesWeStaged,
                 rewritten, commentOthers>>

\* git restore --staged . resolved
CommentUnstageDone ==
  /\ cPc = "unstaging"
  /\ pending' = pending \cup index
  /\ index' = {}
  /\ cPc' = "done"
  /\ cOutcome' = "finished"
  /\ UNCHANGED <<callVars, cIn, filesToComment, filesThatWereStaged, filesWeStaged,
                 cIdx, rewritten, execLog, commentOthers>>

NextComment ==
  \/ CommentEnter
  \/ CommentListed
  \/ CommentAddAllDone
  \/ CommentListedAgain
  \/ CommentGitThrew
  \/ CommentFileProcessed
  \/ CommentWriteDone
  \/ CommentRestageDone
  \/ CommentUnstageDone

SpecComment == InitComment /\ [][NextComment]_vars

\* ------------------------------------------------------ the commit workflow
\* commit(): optional `git add .`, then style(), comment() and message() one
\* after the other, then the optional push and deploy.  The three flows are
\* the actions above; commit() starts each one when the one before settled.

K_COMMIT_STAGE ==
  <<"G","E","N","A","I","S","C","R","I","P","T","_","C","O","M","M","I","T","_","S","T","A","G","E">>
K_COMMIT_PUSH ==
  <<"G","E","N","A","I","S","C","R","I","P","T","_","C","O","M","M","I","T","_","P","U","S","H">>
K_COMMIT_DEPLOY ==
  <<"G","E","N","A","I","S","C","R","I","P","T","_","C","O","M","M","I","T","_","D","E","P","L","O","Y">>

\* process.env as commit() reads it
CommitEnv(in) ==
  [k \in {K_COMMIT_STAGE, K_COMMIT_PUSH, K_COMMIT_DEPLOY} |->
     IF k = K_COMMIT_STAGE THEN in.stage
     ELSE IF k = K_COMMIT_PUSH THEN in.push
     ELSE in.deploy]

FlagValues == {Undefined, Str(S_true)}

\* the working trees a workflow run starts from: staged and unstaged paths
CommitTrees ==
  {[index |-> {}, pending |-> {}],
   [index |-> {}, pending |-> {P_b_md}],
   [index |-> {}, pending |-> {P_a_ts, P_b_md}],
   [index |-> {P_a_ts}, pending |-> {}],
   [index |-> {P_a_ts}, pending |-> {P_b_md}]}

\* the message() runs of a workflow: no diff, one chunk, two chunks, more
\* chunks than the ceiling, an include pattern
CommitMsgInputs ==
  {[variant |-> "packaged", diff |-> 1, chunkSizeEnv |-> 0, chunkMaxEnv |-> 0,
    includeEnv |-> Undefined, excludedEnv |-> Undefined, staged |-> <<>>],
   [variant |-> "part_004", diff |-> 0, chunkSizeEnv |-> 0, chunkMaxEnv |-> 0,
    includeEnv |-> Undefined, excludedEnv |-> Undefined, staged |-> <<>>],
   [variant |-> "part_004", diff |-> 2, chunkSizeEnv |-> 1, chunkMaxEnv |-> 2,
    includeEnv |-> Undefined, excludedEnv |-> Undefined, staged |-> <<>>],
   [variant |-> "part_004", diff |-> 2, chunkSizeEnv |-> 1, chunkMaxEnv |-> 1,
    includeEnv |-> Undefined, excludedEnv |-> Undefined, staged |-> <<>>],
   [variant |-> "part_004", diff |-> 1, chunkSizeEnv |-> 0, chunkMaxEnv |-> 0,
    includeEnv |-> Str(G_deep_ts), excludedEnv |-> Undefined,
    staged |-> <<P_a_ts>>]}

InitCommit ==
  /\ wIn \in [stage : FlagValues, push : FlagValues, deploy : FlagValues]
  /\ wPc = "start"
  /\ caller = "commit"
  /\ envFiles \in {Arr(<<>>), Arr(<<P_a_ts>>)}
  /\ \E tree \in CommitTrees : index = tree.index /\ pending = tree.pending
  /\ index0 = index
  /\ pending0 = pending
  /\ procEnv \in {MkEnv(Undefined, Undefined),
                  MkEnv(Str(S_true), Undefined),
                  MkEnv(Str(S_true), Str(K_STAGE_ALL))}
  /\ args = NoArgs
  /\ pc = "idle"
  /\ source = "unset"
  /\ result = Ret(Undefined)
  /\ stagePc = "idle"
  /\ listCalls = 0
  /\ execLog = <<>>
  /\ stylePc = "idle"
  /\ styleIdx = 0
  /\ modelCalls = 0
  /\ writes = 0
  /\ styleResult = NoResult
  /\ styleGuide = OriginalGuide
  /\ fIn = NoFilterCall
  /\ fOut = Ret(Undefined)
  /\ fPc = "idle"
  /\ callNo = 1
  /\ first = [pc |-> "idle", result |-> Ret(Undefined)]
  /\ cIn \in [extensions : {Undefined, Str(T_ts)}]
  /\ cPc = "idle"
  /\ filesToComment = <<>>
  /\ filesThatWereStaged = <<>>
  /\ filesWeStaged = <<>>
  /\ cIdx = 0
  /\ rewritten = {}
  /\ cOutcome = "none"
  /\ cPrompt = NoPrompt
  /\ cResult = NoCommentResult
  /\ mIn \in CommitMsgInputs
  /\ mPc = "idle"
  /\ chunks = 0
  /\ chunkIdx = 0
  /\ message = <<>>
  /\ commitMessage = <<>>
  /\ runLog = <<>>
  /\ outputs = <<>>
  /\ summaryResult = NoResult
  /\ commits = <<>>
  /\ outcome = "none"
  /\ mResult = Ret(Undefined)
  /\ diffOptions = NoDiffOptions
  /\ GcmIdle
  /\ EnvIdle
  /\ VersionIdle

\* what the steps of commit() itself leave alone
commitOthers ==
  <<pc, source, result, stagePc, listCalls, inputVars, styleIdx, modelCalls,
    writes, styleResult, styleGuide, filterVars, againVars, gcmVars, envVars,
    versionVars,
    wIn, cIn, callVars, filesToComment,
    filesThatWereStaged, filesWeStaged, cIdx, rewritten, cOutcome, mIn, chunks,
    chunkIdx, message, commitMessage, runLog, outputs, summaryResult, commits,
    outcome, mResult, diffOptions>>

\* commit() up to its first await: `git add .` under GENAISCRIPT_COMMIT_STAGE,
\* else style() is called
CommitEnter ==
  /\ wPc = "start"
  /\ IF envBoolean(CommitEnv(wIn), Str(K_COMMIT_STAGE))
       THEN /\ wPc' = "staging"
            /\ execLog' = Append(execLog, [cmd |-> "add .", path |-> <<>>])
            /\ stylePc' = stylePc
       ELSE /\ wPc' = "style"
            /\ stylePc' = "start"
            /\ execLog' = execLog
  /\ UNCHANGED <<cPc, mPc, gitVars, commitOthers>>

\* git add . resolved: every change of the working tree is staged
CommitStageDone ==
  /\ wPc = "staging"
  /\ index' = index \cup pending
  /\ pending' = {}
  /\ wPc' = "style"
  /\ stylePc' = "start"
  /\ UNCHANGED <<cPc, mPc, execLog, commitOthers>>

\* style() settled: its rejection ends commit(), else comment() is called
CommitStyleDone ==
  /\ wPc = "style"
  /\ stylePc \in {"disabled", "nothing", "done", "rejected"}
  /\ IF stylePc = "rejected"
       THEN wPc' = "rejected" /\ cPc' = cPc
       ELSE wPc' = "comment" /\ cPc' = "start"
  /\ UNCHANGED <<stylePc, mPc, execLog, gitVars, commitOthers>>

\* comment() settled: message() is called
CommitCommentDone ==
  /\ wPc = "comment"
  /\ cPc = "done"
  /\ wPc' = "message"
  /\ mPc' = "start"
  /\ UNCHANGED <<stylePc, cPc, execLog, gitVars, commitOthers>>

\* the code after message(): push and deploy under their flags
AfterPush ==
  IF envBoolean(CommitEnv(wIn), Str(K_COMMIT_DEPLOY))
    THEN wPc' = "deploying"
    ELSE wPc' = "done"

\* message() settled
CommitMessageDone ==
  /\ wPc = "message"
  /\ mPc = "done"
  /\ IF mResult.threw
       THEN wPc' = "rejected" /\ execLog' = execLog
       ELSE IF envBoolean(CommitEnv(wIn), Str(K_COMMIT_PUSH))
         THEN /\ wPc' = "pushing"
              /\ execLog' = Append(execLog, [cmd |-> "push", path |-> <<>>])
         ELSE AfterPush /\ execLog' = execLog
  /\ UNCHANGED <<stylePc, cPc, mPc, gitVars, commitOthers>>

\* git push resolved
CommitPushDone ==
  /\ wPc = "pushing"
  /\ AfterPush
  /\ UNCHANGED <<stylePc, cPc, mPc, execLog, gitVars, commitOthers>>

\* npm run deploy resolved
CommitDeployDone ==
  /\ wPc = "deploying"
  /\ wPc' = "done"
  /\ UNCHANGED <<stylePc, cPc, mPc, execLog, gitVars, commitOthers>>

NextCommit ==
  \/ CommitEnter
  \/ CommitStageDone
  \/ CommitStyleDone
  \/ CommitCommentDone
  \/ CommitMessageDone
  \/ CommitPushDone
  \/ CommitDeployDone
  \/ GetFilesListed
  \/ StageAddDone
  \/ StageListDone
  \/ StyleEnter
  \/ StyleResume
  \/ StyleReadDone
  \/ StylePromptDone
  \/ StyleWriteDone
  \/ StyleAddDone
  \/ StyleListDone
  \/ NextComment
  \/ NextMessage

SpecCommit == InitCommit /\ [][NextCommit]_vars

\* ------------------------------------------------------ the version script
\* version(): analyzeVersionBump reads the commit subjects since the last tag
\* and picks the bump, applyVersionBump runs npm version and the git steps.

MaxCommits == 2

\* String.prototype.startsWith and String.prototype.includes
startsWith(s, prefix) ==
  Len(s) >= Len(prefix) /\ SubSeq(s, 1, Len(prefix)) = prefix

strIncludes(s, part) ==
  \E i \in 1..(Len(s) - Len(part) + 1) : SubSeq(s, i, i + Len(part) - 1) = part

\* the output of git log --pretty=format:%s: one subject per line
RECURSIVE joinLines(_)
joinLines(subjects) ==
  IF Len(subjects) = 0 THEN <<>>
  ELSE IF Len(subjects) = 1 THEN subjects[1]
  ELSE subjects[1] \o <<"\n">> \o joinLines(Tail(subjects))

M_BREAKING == <<"b","r","e","a","k","i","n","g"," ","c","h","a","n","g","e">>
M_BANG_COLON == <<"!",":">>
M_BANG_SPACE == <<"!"," ">>

\* the prefixes of the minor branch
FeatPrefixes == {<<"f","e","a","t","(">>, <<"f","e","a","t",":">>}
\* the first test of the loop body
isMajor(msg) ==
  \/ strIncludes(msg, M_BREAKING)
  \/ strIncludes(msg, M_BANG_COLON)
  \/ strIncludes(msg, M_BANG_SPACE)

isMinor(msg) == \E q \in FeatPrefixes : startsWith(msg, q)

\* analyzeVersionBump, given the output of git log; the patch branch of the
\* loop sets hasPatch, and "patch" is returned with and without it
analyzeVersionBump(gitLog) ==
  IF trim(gitLog) = <<>> THEN "none"
  ELSE LET nonBlank(line) == trim(line) # <<>>
           commitLines == SelectSeq(split(gitLog, "\n"), nonBlank)
           msg(i) == trim(toLowerCase(commitLines[i]))
           hasMajor == \E i \in DOMAIN commitLines : isMajor(msg(i))
           hasMinor == \E i \in DOMAIN commitLines :
                         ~isMajor(msg(i)) /\ isMinor(msg(i))
       IN IF hasMajor THEN "major"
          ELSE IF hasMinor THEN "minor"
          ELSE "patch"

\* the operations of applyVersionBump in program order, with the steps in the
\* order tag, commit
VersionSteps_tagFirst(push) ==
  <<"npm version", "readText", "add", "tag", "commit">>
    \o (IF push THEN <<"push", "push --tags">> ELSE <<>>)

\* the operations of applyVersionBump in program order
VersionSteps(push) ==
  <<"npm version", "readText", "add", "commit", "tag">>
    \o (IF push THEN <<"push", "push --tags">> ELSE <<>>)

K_VERSION_PUSH ==
  <<"G","E","N","A","I","S","C","R","I","P","T","_","V","E","R","S","I","O","N","_","P","U","S","H">>

\* envBoolean("GENAISCRIPT_VERSION_PUSH")
versionPush(in) ==
  envBoolean([k \in {K_VERSION_PUSH} |-> in.push], Str(K_VERSION_PUSH))

Subjects ==
  {<<"f","i","x",":"," ","a">>,
   <<"f","e","a","t",":"," ","b">>,
   <<"F","e","a","t","(","x",")",":"," ","c">>,
   <<"f","e","a","t","!",":"," ","d">>,
   <<"f","i","x",":"," ","d","o","n","e","!"," ","n","o","w">>,
   <<"B","R","E","A","K","I","N","G"," ","C","H","A","N","G","E",":"," ","e">>,
   <<"w","i","p">>,
   <<" ">>}

InitVersion ==
  /\ vIn \in [commits : SeqsUpTo(Subjects, MaxCommits),
              push : {Undefined, Str(S_true), Str(S_false)}]
  /\ vPc = "start"
  /\ bumpType = "unset"
  /\ vStep = 0
  /\ vLog = <<>>
  /\ vResult = Ret(Undefined)
  /\ MsgIdle
  /\ GcmIdle
  /\ EnvIdle
  /\ CommentIdle
  /\ WorkflowIdle
  /\ caller = "version"
  /\ envFiles = Arr(<<>>)
  /\ procEnv = MkEnv(Undefined, Undefined)
  /\ args = NoArgs
  /\ index = {}
  /\ pending = {}
  /\ index0 = {}
  /\ pending0 = {}
  /\ pc = "idle"
  /\ source = "unset"
  /\ result = Ret(Undefined)
  /\ stagePc = "idle"
  /\ listCalls = 0
  /\ execLog = <<>>
  /\ stylePc = "idle"
  /\ styleIdx = 0
  /\ modelCalls = 0
  /\ writes = 0
  /\ styleResult = NoResult
  /\ styleGuide = OriginalGuide
  /\ fIn = NoFilterCall
  /\ fOut = Ret(Undefined)
  /\ fPc = "idle"
  /\ callNo = 1
  /\ first = [pc |-> "idle", result |-> Ret(Undefined)]

\* what version() leaves alone
versionOthers ==
  <<resolverVars, msgVars, gcmVars, envVars, commentVars, workflowVars>>

\* git describe settled (a rejection is caught and reads as no tag): git log
\* is called
VersionTagRead ==
  /\ vPc = "start"
  /\ vPc' = "logging"
  /\ UNCHANGED <<vIn, bumpType, vStep, vLog, vResult, versionOthers>>

\* git log resolved: analyzeVersionBump returns, applyVersionBump returns at
\* once for "none" and starts npm version otherwise
VersionAnalyzed ==
  /\ vPc = "logging"
  /\ bumpType' = analyzeVersionBump(joinLines(vIn.commits))
  /\ IF bumpType' = "none"
       THEN vPc' = "done" /\ UNCHANGED <<vStep, vLog>>
       ELSE /\ vPc' = "applying"
            /\ vStep' = 1
            /\ vLog' = <<VersionSteps(versionPush(vIn))[1]>>
  /\ UNCHANGED <<vIn, vResult, versionOthers>>

\* git log rejected: analyzeVersionBump and version() reject
VersionLogThrew ==
  /\ vPc = "logging"
  /\ vPc' = "rejected"
  /\ vResult' = Throw
  /\ UNCHANGED <<vIn, bumpType, vStep, vLog, versionOthers>>

\* a step of applyVersionBump resolved: the next one starts, or the function
\* returns
VersionStepDone ==
  /\ vPc = "applying"
  /\ LET steps == VersionSteps(versionPush(vIn))
     IN IF vStep < Len(steps)
          THEN /\ vStep' = vStep + 1
               /\ vLog' = Append(vLog, steps[vStep + 1])
               /\ vPc' = vPc
          ELSE /\ vPc' = "done"
               /\ UNCHANGED <<vStep, vLog>>
  /\ UNCHANGED <<vIn, bumpType, vResult, versionOthers>>

\* a step of applyVersionBump threw: the catch block logs and rethrows
VersionStepThrew ==
  /\ vPc = "applying"
  /\ vPc' = "rejected"
  /\ vResult' = Throw
  /\ UNCHANGED <<vIn, bumpType, vStep, vLog, versionOthers>>

NextVersion ==
  \/ VersionTagRead
  \/ VersionAnalyzed
  \/ VersionLogThrew
  \/ VersionStepDone
  \/ VersionStepThrew

SpecVersion == InitVersion /\ [][NextVersion]_vars

\* ================================================================== claims
\* What the claims speak of, stated from the inputs of the run.

Range(q) == {q[i] : i \in DOMAIN q}
NoDuplicates(q) == \A i, j \in DOMAIN q : q[i] = q[j] => i = j
TokensOf(v) == IF v.tag = "array" THEN Range(v.arr) ELSE {}
HasPattern(v) == v.tag = "string" /\ v.arr # <<>>
GlobConfigured(a) == HasPattern(a.includePattern) \/ HasPattern(a.excludePattern)
StageAllFlag == envBoolean(procEnv, Str(K_STAGE_ALL))

\* a path passes the extension filter: allow empty or extension allowed, and
\* extension not denied (the extension as getFiles reads it)
PassesExtensions(p, allow, deny) ==
  (allow = {} \/ ext(p) \in allow) /\ ext(p) \notin deny

\* a path passes the glob pair: matches include if present, not exclude
PassesGlobs(p, ip, ep) ==
  /\ HasPattern(ip) => minimatch(p, ip.arr)
  /\ HasPattern(ep) => ~minimatch(p, ep.arr)

\* the filter spec a applied to a list
Filtered(list, a) ==
  LET byGlob(p) == PassesGlobs(p, a.includePattern, a.excludePattern)
      byExt(p) == PassesExtensions(p, TokensOf(a.include), TokensOf(a.exclude))
  IN IF GlobConfigured(a) THEN SelectSeq(list, byGlob) ELSE SelectSeq(list, byExt)

\* style() has not started its own stageFiles({ files: [stylePath] }) call
BeforeStyleStaging == stylePc \notin {"adding", "listing", "done"}

\* C1: for every non-empty explicit list getFiles returns that list filtered,
\* never lists the staged files and stages nothing, whatever the index and
\* the auto-stage flag are.
C1_ExplicitPrecedence ==
  (Len(envFiles.arr) > 0 /\ pc # "idle") =>
    /\ pc = "returned"
    /\ result = Ret(Arr(Filtered(envFiles.arr, args)))
    /\ stagePc = "idle"
    /\ BeforeStyleStaging =>
         listCalls = 0 /\ execLog = <<>> /\ index = index0 /\ pending = pending0

C1_Witness ==
  /\ Len(envFiles.arr) > 0
  /\ pc = "returned"
  /\ index0 # {}
  /\ pending0 # {}
  /\ StageAllFlag
  /\ Range(result.val.arr) \cap index0 = {}
  /\ Len(result.val.arr) > 0
  /\ Len(result.val.arr) < Len(envFiles.arr)

\* C3: with an empty explicit list and a non-empty staged set getFiles returns
\* the staged set filtered and performs no staging operation, also when the
\* auto-stage flag is on; the index is left as it was.
C3_StagedUsedNoStaging ==
  (Len(envFiles.arr) = 0 /\ index0 # {} /\ pc \notin {"idle", "listing"}) =>
    /\ pc = "returned"
    /\ result = Ret(Arr(Filtered(listFiles(index0), args)))
    /\ stagePc = "idle"
    /\ BeforeStyleStaging =>
         execLog = <<>> /\ index = index0 /\ pending = pending0

C3_Witness ==
  /\ Len(envFiles.arr) = 0
  /\ index0 # {}
  /\ pending0 # {}
  /\ StageAllFlag
  /\ pc = "returned"
  /\ Len(result.val.arr) > 0
  /\ listCalls = 1


\* the candidates of a run, from its inputs: the explicit list, else the staged
\* set, else (flag on) the staged set after staging everything, else nothing
Candidates ==
  IF Len(envFiles.arr) > 0 THEN envFiles.arr
  ELSE IF index0 # {} THEN listFiles(index0)
  ELSE IF StageAllFlag THEN listFiles(index0 \cup pending0)
  ELSE <<>>

\* getFiles is past its synchronous filtering and not waiting for stageFiles
Finished == pc \notin {"idle", "listing", "awaitStage"}

\* C2: with an empty explicit list, an empty staged set and the auto-stage flag
\* on, getFiles stages everything and returns the resulting staged set with
\* the filter spec applied, for every filter spec, without raising.
C2_AutoStageFallback ==
  (Len(envFiles.arr) = 0 /\ index0 = {} /\ StageAllFlag /\ Finished) =>
    /\ pc = "returned"
    /\ result = Ret(Arr(Filtered(listFiles(index0 \cup pending0), args)))
    /\ Len(execLog) > 0 /\ execLog[1].cmd = "add -A"
    /\ BeforeStyleStaging => index = index0 \cup pending0

\* C4: when there is no source (empty explicit list, empty staged set, flag
\* off) or the filter removes every candidate, getFiles returns the empty
\* list without raising, and style() then leaves without a model call or write.
C4_NothingToDo ==
  (Finished /\ Filtered(Candidates, args) = <<>>) =>
    /\ pc = "returned"
    /\ result = Ret(Arr(<<>>))
    /\ (caller = "style" /\ stylePc # "awaitGetFiles") =>
         stylePc = "nothing" /\ modelCalls = 0 /\ writes = 0

\* C7: each path occurs at most once in the list getFiles returns, also when
\* the chosen source holds a repeated path.
C7_NoDuplicates ==
  pc = "returned" => NoDuplicates(result.val.arr)

\* C8: when an include or exclude glob is configured only the glob pair
\* decides the result (the allow and deny sets have no effect); when neither
\* is configured only the extension sets decide it.
C8_FilterModeSelection ==
  LET byGlob(p) == PassesGlobs(p, args.includePattern, args.excludePattern)
      byExt(p) ==
        PassesExtensions(p, TokensOf(args.include), TokensOf(args.exclude))
  IN pc = "returned" =>
       /\ GlobConfigured(args) =>
            result = Ret(Arr(SelectSeq(Candidates, byGlob)))
       /\ ~GlobConfigured(args) =>
            result = Ret(Arr(SelectSeq(Candidates, byExt)))

C8_Witness ==
  LET byExt(p) ==
        PassesExtensions(p, TokensOf(args.include), TokensOf(args.exclude))
  IN /\ pc = "returned"
     /\ GlobConfigured(args)
     /\ TokensOf(args.include) # {}
     /\ TokensOf(args.exclude) # {}
     /\ Len(result.val.arr) > 0
     /\ Range(result.val.arr) \cap Range(SelectSeq(Candidates, byExt)) = {}
     /\ SelectSeq(Candidates, byExt) # <<>>

\* C10: with an empty allow set, an empty deny set and no glob pattern getFiles
\* returns the selected source list unchanged: same elements, same order.
NoFilters(a) ==
  TokensOf(a.include) = {} /\ TokensOf(a.exclude) = {} /\ ~GlobConfigured(a)

C10_EmptyFilterIdentity ==
  (NoFilters(args) /\ Finished) =>
    pc = "returned" /\ result = Ret(Arr(Candidates))

C10_Witness ==
  /\ NoFilters(args)
  /\ args.include = Arr(<<>>)
  /\ pc = "returned"
  /\ Len(result.val.arr) >= 2
  /\ result.val.arr # listFiles(Range(result.val.arr))

\* ------------------------------------------- claims about the filters alone
\* the extension of a path: the part of its file name after the last dot, in
\* lower case; "" for a file name without a dot
Extension(p) ==
  LET name == pop(split(p, "/"))
  IN IF \A i \in DOMAIN name : name[i] # "." THEN <<>>
     ELSE toLowerCase(pop(split(name, ".")))

ExtCallDone == fPc = "done" /\ fIn.kind = "ext" /\ fIn.files.tag = "array"
GlobCallDone == fPc = "done" /\ fIn.kind = "glob" /\ fIn.files.tag = "array"

\* C5: filterFiles returns exactly the input paths p with (allow empty or
\* Extension(p) in allow) and Extension(p) not in deny, in input order.
C5_ExtensionFilter ==
  LET allow == TokensOf(fIn.include)
      deny == TokensOf(fIn.exclude)
      keep(p) == (allow = {} \/ Extension(p) \in allow) /\ Extension(p) \notin deny
  IN ExtCallDone => fOut = Ret(Arr(SelectSeq(fIn.files.arr, keep)))

\* C6: a path without a dot has extension "": it passes the extension filter
\* exactly when (allow is empty or "" is in allow) and "" is not in deny.
C6_NoExtensionIsEmpty ==
  LET allow == TokensOf(fIn.include)
      deny == TokensOf(fIn.exclude)
  IN ExtCallDone =>
       \A i \in DOMAIN fIn.files.arr :
         LET p == fIn.files.arr[i]
         IN (\A k \in DOMAIN p : p[k] # ".") =>
              (p \in Range(fOut.val.arr) <=>
                 ((allow = {} \/ <<>> \in allow) /\ <<>> \notin deny))

\* C9: filterFilesByGlob keeps a path if and only if it matches the include
\* pattern (when present) and does not match the exclude pattern (when
\* present); the kept paths stay in input order.
C9_GlobFilter ==
  LET keep(p) == PassesGlobs(p, fIn.includePattern, fIn.excludePattern)
  IN GlobCallDone => fOut = Ret(Arr(SelectSeq(fIn.files.arr, keep)))

C9_Witness ==
  /\ GlobCallDone
  /\ HasPattern(fIn.includePattern)
  /\ HasPattern(fIn.excludePattern)
  /\ Len(fOut.val.arr) > 0
  /\ \E i \in DOMAIN fIn.files.arr :
       LET p == fIn.files.arr[i]
       IN /\ minimatch(p, fIn.includePattern.arr)
          /\ minimatch(p, fIn.excludePattern.arr)
          /\ p \notin Range(fOut.val.arr)


\* C11: two calls of getFiles with the same non-empty explicit list and the
\* same filter spec, with nothing changed in between, return the same ordered
\* list.
C11_ResolverIdempotent ==
  (Len(envFiles.arr) > 0 /\ callNo = 2 /\ pc # "idle") =>
    /\ first.pc = "returned"
    /\ pc = "returned"
    /\ result = first.result

C11_Witness ==
  /\ Len(envFiles.arr) > 1
  /\ callNo = 2
  /\ pc = "returned"
  /\ Len(result.val.arr) > 0
  /\ Len(result.val.arr) < Len(envFiles.arr)
  /\ index0 # {}


\* --------------------------------------- claims about the message pipeline
ChunkCalls == SelectSeq(runLog, LAMBDA c : c.kind = "chunk")
SummaryCalls == SelectSeq(runLog, LAMBDA c : c.kind = "summarize")

\* every chunk's runPrompt call has resolved
LoopDone == chunks > 0 /\ Len(outputs) = chunks

\* message() is past its last decision
MsgSettled == mPc \in {"committing", "done"}

Blank(s) == \A i \in DOMAIN s : s[i] \in WhiteSpace

\* C12: when the number of chunks exceeds the configured chunk ceiling, no
\* per-chunk model call, no summarize call and no commit is made.
C12_CeilingGuard ==
  (mPc \notin {"start", "diffing", "chunking"} /\ chunks > chunkMaxOf(mIn)) =>
    /\ runLog = <<>>
    /\ commits = <<>>


\* what a successful chunk output adds to the combined text
Contribution(r) == trim(extract(r)) \o <<"\n">>

\* the contributions of the successful outputs, in order
RECURSIVE Combined(_)
Combined(outs) ==
  IF outs = <<>>
    THEN <<>>
    ELSE Combined(SubSeq(outs, 1, Len(outs) - 1))
           \o (IF outs[Len(outs)].error THEN <<>>
               ELSE Contribution(outs[Len(outs)]))

\* the successful outputs, trimmed, with a newline between neighbours only
RECURSIVE Joined(_)
Joined(outs) ==
  IF outs = <<>>
    THEN <<>>
    ELSE LET front == Joined(SubSeq(outs, 1, Len(outs) - 1))
             last == outs[Len(outs)]
         IN IF last.error THEN front
            ELSE IF front = <<>> THEN trim(extract(last))
            ELSE front \o <<"\n">> \o trim(extract(last))

\* C14: when the model call returns an error on some chunk, every later
\* chunk is still processed, no chunk is called twice, and the combined text
\* holds the other chunks' outputs in their order and nothing of the failed
\* chunk.
C14_FailureIsolation ==
  (\E i \in DOMAIN outputs : outputs[i].error) =>
    /\ message = Combined(outputs)
    /\ \A k \in DOMAIN ChunkCalls : ChunkCalls[k].idx = k
    /\ Len(ChunkCalls) =
         IF Len(outputs) < chunks THEN Len(outputs) + 1 ELSE chunks

C14_Witness ==
  /\ chunks = 3
  /\ LoopDone
  /\ outputs[1].error
  /\ ~outputs[2].error
  /\ ~outputs[3].error
  /\ message = <<"y", "\n", "x", "\n">>

\* C15 as stated: summarize receives the successful outputs joined by a
\* single newline with no trailing separator ("x\ny").
C15_JoinedNoTrailingSeparator ==
  \A k \in DOMAIN SummaryCalls : SummaryCalls[k].text = Joined(outputs)

\* C15: summarize receives every successful output, trimmed and followed by
\* a newline, in chunk order: "x\ny\n" when chunk 2 of 3 fails and chunks 1
\* and 3 return "x" and "y".
C15_CombinedText ==
  \A k \in DOMAIN SummaryCalls :
    /\ SummaryCalls[k].text = Combined(outputs)
    /\ (/\ chunks = 3
        /\ outputs[1] = Result(FALSE, <<>>, <<"x">>)
        /\ outputs[2].error
        /\ outputs[3] = Result(FALSE, <<>>, <<"y">>))
         => SummaryCalls[k].text = <<"x", "\n", "y", "\n">>

C15_Witness ==
  /\ chunks = 3
  /\ mPc = "summary"
  /\ outputs[1] = Result(FALSE, <<>>, <<"x">>)
  /\ outputs[2].error
  /\ outputs[3] = Result(FALSE, <<>>, <<"y">>)
  /\ Len(SummaryCalls) = 1


\* the summarize call returned an error and message() went on
SummaryFailed == summaryResult.error /\ MsgSettled

\* C16 as stated: when summarize fails, the final text is the very text that
\* was passed to summarize, unchanged, and it is committed when non-empty.
C16_FallbackUnchanged ==
  SummaryFailed =>
    /\ commitMessage = SummaryCalls[1].text
    /\ commits = IF Len(commitMessage) > 0 THEN <<commitMessage>> ELSE <<>>

\* C16: when N>1 chunks were produced and summarize returns an error, the
\* final text is the text that was passed to summarize with the surrounding
\* white space (its closing newline) trimmed; it is committed when non-empty
\* and the run ends with no commit when it is empty.
C16_FallbackTrimmed ==
  SummaryFailed =>
    /\ chunks > 1
    /\ Len(SummaryCalls) = 1
    /\ commitMessage = trim(SummaryCalls[1].text)
    /\ IF Len(commitMessage) > 0
         THEN commits = <<commitMessage>> /\ outcome # "noMessage"
         ELSE commits = <<>> /\ outcome = "noMessage"

C16_Witness ==
  /\ SummaryFailed
  /\ SummaryCalls[1].text = <<"x", "\n", "f", "\n">>
  /\ commits = <<<<"x", "\n", "f">>>>
  /\ outcome = "committed"

\* C17: when the diff splits into exactly one chunk, the per-chunk call is
\* made exactly once, summarize is never called, and the final text is that
\* chunk's output (the fence content or the text, trimmed).
C17_SingleChunk ==
  (chunks = 1 /\ mPc \notin {"start", "diffing", "chunking"}) =>
    /\ runLog = <<ChunkCall(mIn, 1)>>
    /\ runLog[1].lo = 1
    /\ runLog[1].hi = mIn.diff
    /\ (MsgSettled /\ Len(outputs) = 1 /\ ~outputs[1].error) =>
         commitMessage = trim(extract(outputs[1]))
    /\ commits \in {<<>>, <<commitMessage>>}

C17_Witness ==
  /\ chunks = 1
  /\ mIn.diff > 1
  /\ mPc = "done"
  /\ outcome = "committed"
  /\ outputs = <<Result(FALSE, <<<<" ", "f", "\n">>>>, <<"t">>)>>
  /\ commits = <<<<"f">>>>

\* C18: with N>1 chunks within the ceiling and every chunk succeeding, the
\* per-chunk call is made N times in chunk order and summarize is called
\* once, after the last chunk call, with the N outputs concatenated in chunk
\* order.
C18_AllChunksThenSummary ==
  (/\ chunks > 1
   /\ chunks <= chunkMaxOf(mIn)
   /\ LoopDone
   /\ \A i \in DOMAIN outputs : ~outputs[i].error) =>
    /\ Len(runLog) = chunks + 1
    /\ \A k \in 1..chunks :
         /\ runLog[k].kind = "chunk"
         /\ runLog[k].idx = k
         /\ runLog[k].lo = (k - 1) * chunkSizeOf(mIn) + 1
    /\ runLog[chunks + 1].kind = "summarize"
    /\ runLog[chunks + 1].text = Combined(outputs)

C18_Witness ==
  /\ chunks = 3
  /\ mPc = "summary"
  /\ outputs = <<Result(FALSE, <<>>, <<"y">>),
                 Result(FALSE, <<<<" ", "f", "\n">>>>, <<"t">>),
                 Result(FALSE, <<>>, <<"x">>)>>
  /\ runLog[4].text = <<"y", "\n", "f", "\n", "x", "\n">>


\* C19: when the staged diff is empty, message() does no chunking, makes no
\* model call and no commit, and ends without an error.
C19_EmptyDiffShortCircuit ==
  mIn.diff = 0 =>
    /\ mPc \in {"start", "diffing", "done"}
    /\ chunks = 0
    /\ runLog = <<>>
    /\ commits = <<>>
    /\ outcome \in {"none", "noChanges"}
    /\ mPc = "done" => outcome = "noChanges"

C19_Witness ==
  /\ mIn.diff = 0
  /\ mPc = "done"
  /\ outcome = "noChanges"

\* runPrompt rejected and the catch block ended the run before any commit
PromptThrew == outcome = "caught" /\ commits = <<>>

\* the text message() ends up with, before it is trimmed
FinalText ==
  IF chunks > 1 /\ ~summaryResult.error
    THEN extract(summaryResult)
    ELSE message

\* C20: when the final text is empty or only white space (a successful
\* summarize that returns only white space included), no commit is executed
\* and the run ends without an error.
C20_BlankFinalTextNoCommit ==
  (LoopDone /\ MsgSettled /\ ~PromptThrew /\ Blank(FinalText)) =>
    /\ commits = <<>>
    /\ mPc = "done"
    /\ outcome = "noMessage"

C20_Witness ==
  /\ chunks = 2
  /\ mPc = "done"
  /\ message = <<"x", "\n", "y", "\n">>
  /\ summaryResult = Result(FALSE, <<>>, <<" ">>)
  /\ commits = <<>>
  /\ outcome = "noMessage"


\* ----------------------------------------------- claims about the gcm script
GcmChunkCalls == SelectSeq(gLog, LAMBDA c : c.kind = "chunk")

\* gcm is past the decision it takes once the diff is chunked
GcmPastCeiling == gPc \notin {"idle", "start", "adding", "diffing", "chunking"}

\* C13: when the chunk count exceeds maxChunks, in interactive mode no chunk
\* is processed unless the user confirms, and in auto mode the run fails
\* without processing any chunk.
C13_CeilingConfirmation ==
  (GcmPastCeiling /\ gChunks > gcmMaxChunks(gIn)) =>
    IF gIn.auto
      THEN /\ GcmChunkCalls = <<>>
           /\ gPc = "done"
           /\ gOutcome \notin {"none", "committed", "noMessage"}
      ELSE /\ gConfirm # "notAsked"
           /\ GcmChunkCalls # <<>> => gConfirm = "yes"


\* ------------------------------------------------- claims about the settings
NumberKeys == MessageNumberKeys \cup GcmNumberKeys

\* C21: the chunk size and the chunk ceiling are always positive integers:
\* an absent, unparseable, zero or negative value gives the documented
\* default.
C21_SettingsPositive ==
  (ePc = "done" /\ eIn.key \in NumberKeys) =>
    /\ eOut.tag = "number"
    /\ ~eOut.nan
    /\ eOut.n > 0
    /\ eIn.value.tag = "undefined" => eOut.n = DefaultOf(eIn.key)

\* C30: a flag resolves to a boolean without raising for every value, and to
\* true only when the value equals "true" ignoring case.
C30_FlagsNeverCrash ==
  (ePc = "done" /\ eIn.key \in EnvBooleanKeys \cup GcmBooleanKeys) =>
    /\ eOut.tag = "boolean"
    /\ eOut.b =>
         /\ eIn.value.tag = "string"
         /\ toLowerCase(eIn.value.arr) = S_true


\* C24: chunks are processed one at a time in original order: at most one
\* model call is in flight, and the call for chunk k+1 is issued only after
\* the call for chunk k has returned.
C24_OneAtATime ==
  /\ \A k \in DOMAIN ChunkCalls : ChunkCalls[k].idx = k
  /\ Len(ChunkCalls) <= Len(outputs) + 1
  /\ mPc = "prompt" =>
       Len(ChunkCalls) = Len(outputs) + 1 /\ SummaryCalls = <<>>
  /\ SummaryCalls # <<>> =>
       /\ Len(SummaryCalls) = 1
       /\ Len(outputs) = chunks
       /\ Len(ChunkCalls) = chunks
       /\ runLog[Len(runLog)].kind = "summarize"

C24_Witness ==
  /\ chunks = 3
  /\ mPc = "prompt"
  /\ Len(outputs) = 2
  /\ Len(ChunkCalls) = 3


GcmCalls(kind) == SelectSeq(gLog, LAMBDA c : c.kind = kind)

\* C29: in auto mode gcm stages all files when none are staged, commits with
\* the generated message without asking the user, and pushes the changes.
C29_AutoStagesCommitsPushes ==
  gIn.auto =>
    /\ (gPc \notin {"idle", "start"} /\ ~gIn.hasStaged) =>
         Len(GcmCalls("add")) = 1
    /\ GcmCalls("select") = <<>>
    /\ gConfirm = "notAsked"
    /\ gOutcome = "committed" =>
         /\ Len(GcmCalls("commit")) = 1
         /\ Len(GcmCalls("push")) = 1


\* C22: a message run aborted because the ceiling was exceeded or the final
\* text was empty settles with an outcome that differs from the outcome of a
\* run that committed.
C22_AbortReported ==
  (mPc = "done" /\ outcome \in {"tooLarge", "noMessage"}) =>
    mResult # messageSettles("committed")

\* C23: an unexpected error thrown by git or by the model call during the
\* message pipeline is propagated to the caller of message().
C23_ErrorPropagated ==
  (mPc = "done" /\ outcome = "caught") => mResult.threw


\* the patterns of GENAISCRIPT_MESSAGE_EXCLUDED_PATHS as they were configured
ConfiguredExcluded ==
  IF mIn.excludedEnv.tag = "undefined" \/ Len(mIn.excludedEnv.arr) = 0
    THEN <<>>
    ELSE LET items == split(mIn.excludedEnv.arr, ",")
         IN [i \in DOMAIN items |-> trim(items[i])]

IncludeSet ==
  mIn.includeEnv.tag = "string" /\ ~Blank(mIn.includeEnv.arr)

\* a staged path that matches the include pattern and no excluded pattern
Qualifies(file) ==
  /\ minimatch(file, trim(mIn.includeEnv.arr))
  /\ \A i \in DOMAIN ConfiguredExcluded :
       ~minimatch(file, ConfiguredExcluded[i])

\* C26: with GENAISCRIPT_MESSAGE_INCLUDE set and a non-empty staged set the
\* diff is requested for exactly the staged paths that match the include
\* pattern and no pattern of GENAISCRIPT_MESSAGE_EXCLUDED_PATHS; when none
\* qualifies the flow exits with no model call and no commit; without an
\* include pattern the diff is requested for all staged files minus the
\* excluded paths.
C26_IncludePattern ==
  (mIn.variant = "part_004" /\ mPc \notin {"idle", "start", "listing"}) =>
    IF IncludeSet
      THEN Len(mIn.staged) > 0 =>
             IF SelectSeq(mIn.staged, Qualifies) = <<>>
               THEN /\ mPc = "done"
                    /\ outcome = "noMatch"
                    /\ runLog = <<>>
                    /\ commits = <<>>
               ELSE diffOptions.paths = Arr(SelectSeq(mIn.staged, Qualifies))
      ELSE /\ diffOptions.paths = Undefined
           /\ diffOptions.excludedPaths = Arr(ConfiguredExcluded)

\* comment() staged everything itself: it called git add -A
StagedAll == \E i \in DOMAIN execLog : execLog[i].cmd = "add -A"

\* C27: whenever comment() staged all files itself, nothing is left staged
\* when it ends, whichever way it ends
C27_UnstagedAgain ==
  (cPc = "done" /\ StagedAll) => index = {}

\* C28: when comment() ends, every file that was staged before the run and
\* that it rewrote is staged again with its new content
C28_RestagedAfterRewrite ==
  cPc = "done" =>
    \A f \in rewritten \cap index0 : f \in index /\ f \notin pending

IsSubsequence(a, b) ==
  \E f \in [DOMAIN a -> DOMAIN b] :
    /\ \A i, j \in DOMAIN a : i < j => f[i] < f[j]
    /\ \A i \in DOMAIN a : a[i] = b[f[i]]

\* C38: filterFiles and filterFilesByGlob return a list, a subsequence of the
\* input list; an absent or empty input gives the empty list
C38_FiltersOnlyRemove ==
  (fPc = "done" /\ fIn.files.tag \in {"array", "undefined", "false"}) =>
    /\ ~fOut.threw
    /\ fOut.val.tag = "array"
    /\ IF fIn.files.tag = "array"
         THEN IsSubsequence(fOut.val.arr, fIn.files.arr)
         ELSE fOut.val.arr = <<>>

\* a call that removed one of two files and kept the other
C38_Witness ==
  /\ fPc = "done"
  /\ fIn.files.tag = "array"
  /\ Len(fIn.files.arr) = 2
  /\ Len(fOut.val.arr) = 1
  /\ fOut.val.arr[1] = fIn.files.arr[2]

\* the value of GENAISCRIPT_STYLE_ENABLED is "true"
StyleFlagTrue == envGet(procEnv, Str(K_STYLE_ENABLED)) = Str(S_true)

\* C31: once style() is past its flag test, it has left early exactly when
\* GENAISCRIPT_STYLE_ENABLED is not "true"; a style() that left early listed no
\* files, called no model and wrote nothing
C31_StyleEnableFlag ==
  (caller = "style" /\ stylePc # "start") =>
    /\ (stylePc = "disabled") <=> ~StyleFlagTrue
    /\ stylePc = "disabled" => (listCalls = 0 /\ modelCalls = 0 /\ writes = 0)

\* the texts of the model calls that succeeded
GoodGuides == {r.text : r \in {q \in StyleResponses : ~q.error /\ q.text # <<>>}}

\* C39: the style guide holds its original content or the text of a model
\* call that returned no error and some text
C39_GuideOnlyFromSuccess ==
  styleGuide \in {OriginalGuide} \cup GoodGuides

\* the model call returned no error and some text
Succeeded(p) == ~p.rejected /\ ~p.result.error /\ p.result.text # <<>>

\* C32: comment() writes a file back only after a model call that returned
\* no error and some text; after any other outcome the content at hand is
\* the original one; and a run that entered the loop ends only after its last
\* file
C32_WriteSafetyAndIsolation ==
  /\ cPc = "writing" => Succeeded(cPrompt)
  /\ (cPc = "writing" /\ ~Succeeded(cPrompt)) => cResult.content = OriginalContent
  /\ (cPc = "done" /\ cIdx >= 1) => cIdx = Len(filesToComment)

\* ---------------------------------------------- claims about the version script
\* the header of a commit subject: what stands before its first colon
HeaderOf(subject) == split(subject, ":")[1]

HasHeader(subject) == \E i \in DOMAIN subject : subject[i] = ":"

\* a breaking change: BREAKING CHANGE in the subject, or a "!" that closes
\* the header
BreakingChange(subject) ==
  \/ strIncludes(toLowerCase(subject), M_BREAKING)
  \/ /\ HasHeader(subject)
     /\ Len(HeaderOf(subject)) > 0
     /\ HeaderOf(subject)[Len(HeaderOf(subject))] = "!"

\* a feature: the header is feat, with or without a scope
Feature(subject) ==
  /\ HasHeader(subject)
  /\ LET h == toLowerCase(trim(HeaderOf(subject)))
     IN h = <<"f","e","a","t">> \/ startsWith(h, <<"f","e","a","t","(">>)

\* the bump the commit subjects call for
ExpectedBump(subjects) ==
  LET real == {i \in DOMAIN subjects : trim(subjects[i]) # <<>>}
  IN IF real = {} THEN "none"
     ELSE IF \E i \in real : BreakingChange(subjects[i]) THEN "major"
     ELSE IF \E i \in real : Feature(subjects[i]) THEN "minor"
     ELSE "patch"

\* C33: analyzeVersionBump returns "none" without commits, else "major" when
\* a commit is a breaking change, else "minor" when a commit is a feat, else
\* "patch"
C33_BumpSelection ==
  bumpType # "unset" => bumpType = ExpectedBump(vIn.commits)

\* the positions of an operation in the log of applyVersionBump
Started(op) == {i \in DOMAIN vLog : vLog[i] = op}

\* C34: with bump type "none" applyVersionBump starts no operation; the
\* version commit comes before the tag and the tag before every push; a push
\* is started only when GENAISCRIPT_VERSION_PUSH is true; after a failure no
\* further operation is started and version() rejects
C34_ApplyOrdering ==
  /\ bumpType = "none" => vLog = <<>>
  /\ \A t \in Started("tag") : \E c \in Started("commit") : c < t
  /\ \A q \in Started("push") \cup Started("push --tags") :
       /\ \E t \in Started("tag") : t < q
       /\ vIn.push = Str(S_true)
  /\ \A q \in Started("push --tags") : \E r \in Started("push") : r < q
  /\ vPc = "rejected" => (vResult.threw /\ Len(vLog) = vStep)
  /\ vPc = "done" => ~vResult.threw

\* a run that pushed the tag after the version commit
C34_Witness ==
  /\ vPc = "done"
  /\ bumpType \in {"major", "minor", "patch"}
  /\ Started("commit") # {}
  /\ Started("push --tags") # {}

\* the per-chunk model call failed for every chunk of the run
AllChunksFailed == LoopDone /\ \A i \in DOMAIN outputs : outputs[i].error

\* C35: when the model call failed for every chunk, message() starts no
\* commit
C35_AllFailedNoCommit ==
  AllChunksFailed => (commits = <<>> /\ mPc # "committing")

\* the git commit calls of the gcm loop, with -m alone or with --edit
GcmCommits == SelectSeq(gLog, LAMBDA c : c.kind \in {"commit", "commitEdit"})

\* C36: a run of message() and a run of the gcm loop, whatever the choices,
\* call git commit at most once, with a message that is not empty once
\* trimmed
C36_CommitOnceNonEmpty ==
  /\ Len(commits) <= 1
  /\ \A i \in DOMAIN commits : trim(commits[i]) # <<>>
  /\ Len(GcmCommits) <= 1
  /\ \A i \in DOMAIN GcmCommits : trim(GcmCommits[i].text) # <<>>

\* a gcm run that regenerated the message and then committed
C36_Witness ==
  /\ gPc = "done"
  /\ gRound >= 2
  /\ gOutcome = "committed"
  /\ Len(GcmCommits) = 1

\* commit() ran git push
Pushed == \E i \in DOMAIN execLog : execLog[i].cmd = "push"

\* style, comment and message run one after the other in a commit() run
WorkflowOrdered ==
  /\ cPc # "idle" => stylePc \in {"disabled", "nothing", "done"}
  /\ mPc # "idle" => cPc = "done"
  /\ Pushed => mPc = "done"

\* C37: in a commit() run comment() starts after style() finished and
\* message() after comment() finished, and git push runs only after a
\* message() that made a commit
C37_OrderedAndPushAfterCommit ==
  /\ WorkflowOrdered
  /\ Pushed => outcome = "committed"

====
